---- MODULE Spec2Model ----
(***************************************************************************)
(* A model of the SystemVerilog preprocessor of moore                      *)
(* (src/svlog/preproc.rs): the stream stack, the pending macro stack, the  *)
(* macro table and the define-conditional stack, driven by successive      *)
(* calls to Preprocessor::next().                                          *)
(*                                                                         *)
(* One step of the model is one iteration of the main loop of next(),      *)
(* together with everything that iteration calls (handle_directive and     *)
(* every bump()).  ret.kind = "Cont" says that the running call has not    *)
(* returned yet; any other kind is the value the call returned.            *)
(*                                                                         *)
(* Offsets are counted in category tokens, not bytes: the i-th token of a  *)
(* source has the span [b |-> i-1, e |-> i].  A file name, which the code  *)
(* builds by concatenating extracted texts, is the sequence of those       *)
(* texts.                                                                  *)
(*                                                                         *)
(* A second specification, InstSpec, models the instantiation details of   *)
(* src/svlog/inst_details.rs: the queries inst_details and                 *)
(* inst_target_details over a small design, and the verbosity visitor.     *)
(***************************************************************************)
EXTENDS Integers, Sequences, FiniteSets, TLC

VARIABLES
    root,           \* the category tokens of the root source
    stack,          \* Preprocessor.stack: streams [source, pos], top last
    contents,       \* Preprocessor.contents: the pinned sources
    token,          \* Preprocessor.token
    macro_defs,     \* Preprocessor.macro_defs: name -> Macro
    macro_stack,    \* Preprocessor.macro_stack, top last
    defcond_stack,  \* Preprocessor.defcond_stack, top last
    ret,            \* what the latest loop iteration of next() did
    out,            \* the Ok items returned so far, in order
    last,           \* the latest loop iteration: which arm ran, on what
    design,         \* the parameters and the module name the design leaves open
    cx,             \* the query context: caches, interned environments, diagnostics
    visitors,       \* the InstVerbosityVisitor values on the call stack, top last
    visited,        \* the module bodies the visitors have walked, with their env
    answer,         \* the latest query or visitor step and what it returned
    calls           \* the queries asked and the walks started so far

\* the preprocessor
pvars == <<root, stack, contents, token, macro_defs, macro_stack,
           defcond_stack, ret, out, last>>

\* the instantiation details
ivars == <<design, cx, visitors, visited, answer, calls>>

vars == <<root, stack, contents, token, macro_defs, macro_stack,
          defcond_stack, ret, out, last,
          design, cx, visitors, visited, answer, calls>>

----------------------------------------------------------------------------
(* Bounds of the model.                                                    *)

\* items in an enumerated root source
MaxItems == 3
\* tokens in an enumerated directive-free root source
MaxPlain == 3
\* tokens in an enumerated list of actual arguments
MaxUse == 4
\* tokens in an enumerated macro definition
MaxDef == 4
\* items in an enumerated root source with include directives
MaxIncl == 3
\* queries asked and walks started in a run of the instantiation details
MaxCalls == 2
\* Ok items recorded before the model stops a run
MaxOut == 12
\* depth of the stream stack before the model stops a run
MaxStreams == 3
\* tokens on the pending macro stack before the model stops a run
MaxPending == 12

----------------------------------------------------------------------------
(* Category tokens, as the lexer (svlog::cat) hands them over: a kind and  *)
(* the text the token covers.  Symbol(c) is the kind c itself; the kind of  *)
(* the backtick symbol is written "BACKTICK".                              *)

Tx(s) == [k |-> "Text", t |-> s]
Dg(s) == [k |-> "Digits", t |-> s]
Cm(s) == [k |-> "Comment", t |-> s]
Sy(c) == [k |-> c, t |-> c]
Ws == [k |-> "Whitespace", t |-> " "]
Nl == [k |-> "Newline", t |-> "\n"]
Bt == Sy("BACKTICK")
Quote == Sy("\"")
Bsl == Sy("\\")

RECURSIVE Flatten(_)
Flatten(ss) == IF ss = <<>> THEN <<>> ELSE Head(ss) \o Flatten(Tail(ss))

Reverse(s) == [i \in 1..Len(s) |-> s[Len(s) + 1 - i]]
Front(s) == SubSeq(s, 1, Len(s) - 1)
Top(s) == s[Len(s)]

\* the one element of a set of one element.  Only({e : x \in {v}}) is e with
\* x bound to the value of v, computed once.
Only(S) == CHOOSE x \in S : TRUE

----------------------------------------------------------------------------
(* The source manager: the files that exist beside the root source.  A     *)
(* file has a path, the directory it lies in and its name (the texts that  *)
(* an include directive concatenates to name it).                          *)

RootPath == "r/test.sv"

KwDefine == Tx("define")
KwInclude == Tx("include")

\* tests::include_and_define: other.sv
OtherSv == <<Cm("/* World */"), Nl, Bt, KwDefine, Ws, Tx("foo"), Ws, Dg("42"), Nl>>
\* a file that defines A and holds one token of its own
DefsSv == <<Tx("d"), Bt, KwDefine, Ws, Tx("A"), Ws, Tx("a3"), Nl>>
\* a file found only through the configured include paths; it defines a
\* macro whose body includes "defs", and includes "defs" itself
LibSv ==
    <<Tx("lib"),
      Bt, KwDefine, Ws, Tx("L"), Ws, Bt, KwInclude, Ws, Quote, Tx("defs"), Quote, Nl,
      Bt, KwInclude, Ws, Quote, Tx("defs"), Quote, Nl>>
\* the file of the same name under the second include path
Lib2Sv == <<Tx("lib2")>>
\* the "defs" that lies beside lib
IncDefsSv == <<Tx("e")>>
\* a file found only under the second include path
FarSv == <<Tx("far")>>
\* a file that ends inside the file name of an include directive
CutSv == <<Tx("c"), Bt, KwInclude, Ws, Quote, Tx("de")>>

Files ==
    { [path |-> "r/other.sv", dir |-> "r", name |-> <<"other", ".", "sv">>],
      [path |-> "r/defs", dir |-> "r", name |-> <<"defs">>],
      [path |-> "inc/lib", dir |-> "inc", name |-> <<"lib">>],
      [path |-> "inc/defs", dir |-> "inc", name |-> <<"defs">>],
      [path |-> "inc2/lib", dir |-> "inc2", name |-> <<"lib">>],
      [path |-> "inc2/far", dir |-> "inc2", name |-> <<"far">>],
      [path |-> "r/cut", dir |-> "r", name |-> <<"cut">>],
      [path |-> RootPath, dir |-> "r", name |-> <<"test", ".", "sv">>] }

include_paths == <<"inc", "inc2">>

\* Source::get_content
Content(path) ==
    CASE path = RootPath -> root
      [] path = "r/other.sv" -> OtherSv
      [] path = "r/defs" -> DefsSv
      [] path = "inc/lib" -> LibSv
      [] path = "inc/defs" -> IncDefsSv
      [] path = "inc2/lib" -> Lib2Sv
      [] path = "inc2/far" -> FarSv
      [] path = "r/cut" -> CutSv

\* Path::parent of Source::get_path
Parent(path) == (CHOOSE f \in Files : f.path = path).dir

\* Span::extract of the span of one token
Extract(sp) == Content(sp.src)[sp.e].t

\* Span::union
Union(a, b) ==
    [src |-> a.src,
     b |-> IF a.b <= b.b THEN a.b ELSE b.b,
     e |-> IF a.e >= b.e THEN a.e ELSE b.e]

NoSpan == [src |-> "", b |-> 0, e |-> 0]
\* Option::None of Preprocessor.token
NoToken == [k |-> "None", sp |-> NoSpan]

----------------------------------------------------------------------------
(* The preprocessor's fields as one record, so that the steps of a handler *)
(* compose.                                                                *)

Cur ==
    [stack |-> stack, contents |-> contents, token |-> token,
     macro_defs |-> macro_defs, macro_stack |-> macro_stack,
     defcond_stack |-> defcond_stack]

NoMacros == [n \in {} |-> 0]
NoParams == [n \in {} |-> <<>>]
NoMacro == [name |-> "", span |-> NoSpan, args |-> <<>>, body |-> <<>>]

\* Preprocessor::new
New ==
    [stack |-> <<[source |-> RootPath, pos |-> 0]>>,
     contents |-> <<RootPath>>,
     token |-> NoToken,
     macro_defs |-> NoMacros,
     macro_stack |-> <<>>,
     defcond_stack |-> <<>>]

\* the token a stream's iterator yields at position i, with its span
TokenAt(path, i) ==
    [k |-> Content(path)[i].k, sp |-> [src |-> path, b |-> i - 1, e |-> i]]

\* the loop of bump(): read the topmost stream, popping exhausted streams
RECURSIVE BumpStream(_)
BumpStream(s) ==
    IF s.stack = <<>> THEN [s EXCEPT !.token = NoToken]
    ELSE LET top == Top(s.stack) IN
         IF top.pos < Len(Content(top.source))
         THEN [s EXCEPT !.token = TokenAt(top.source, top.pos + 1),
                        !.stack[Len(s.stack)].pos = top.pos + 1]
         ELSE Only({BumpStream(n) : n \in {[s EXCEPT !.stack = Front(s.stack)]}})

\* Preprocessor::bump
Bump(s) ==
    IF s.macro_stack # <<>>
    THEN [s EXCEPT !.token = Top(s.macro_stack),
                   !.macro_stack = Front(s.macro_stack)]
    ELSE BumpStream(s)

\* is_inactive with Done taken for an active entry
IsInactive_DoneActive(s) ==
    s.defcond_stack # <<>> /\ Top(s.defcond_stack) = "Disabled"

\* is_inactive with Disabled taken for an active entry
IsInactive_DisabledActive(s) ==
    s.defcond_stack # <<>> /\ Top(s.defcond_stack) = "Done"

\* Preprocessor::is_inactive
IsInactive(s) ==
    s.defcond_stack # <<>> /\ Top(s.defcond_stack) # "Enabled"

\* match self.token { Some((Whitespace, _)) => self.bump(), _ => () }
SkipWs(s) == IF s.token.k = "Whitespace" THEN Bump(s) ELSE s

\* a table without the directives that have no implementation
DirectiveOf_NoUndef(dir_name) ==
    IF dir_name \in {"include", "define", "ifdef", "ifndef", "else", "elsif", "endif"}
    THEN dir_name ELSE "unknown"

\* DIRECTIVES_TABLE lookup, Directive::Unknown when absent
DirectiveOf(dir_name) ==
    IF dir_name \in {"include", "define", "undef", "undefineall", "ifdef",
                     "ifndef", "else", "elsif", "endif"}
    THEN dir_name ELSE "unknown"

(* What handle_directive hands back: the preprocessor it leaves, the fatal *)
(* diagnostic ("" for Ok(())) with its span, and what it consumed: the     *)
(* macro name read (arg), the macro stored or used (mac), the captured     *)
(* actual arguments (params), the tokens pushed for playback (pushed) and  *)
(* the file name accumulated (file).                                       *)
Done(s) ==
    [s |-> s, err |-> "", span |-> NoSpan, arg |-> "", mac |-> NoMacro,
     params |-> NoParams, pushed |-> <<>>, file |-> <<>>]
Fail(s, msg, span) == [Done(s) EXCEPT !.err = msg, !.span = span]

----------------------------------------------------------------------------
(* handle_directive: the define conditionals.                              *)

\* Directive::Ifdef: the entry pushed
IfdefEntry(exists) == IF exists THEN "Enabled" ELSE "Disabled"

\* Directive::Ifndef: the entry pushed
IfndefEntry(exists) == IF exists THEN "Disabled" ELSE "Enabled"

\* an elsif that enables its branch without looking at the macro name
ElsifEntry_IgnoreName(top, exists) ==
    CASE top \in {"Done", "Enabled"} -> "Done"
      [] top = "Disabled" -> "Enabled"

\* Directive::Elsif: the entry pushed in place of the popped one
ElsifEntry(top, exists) ==
    CASE top \in {"Done", "Enabled"} -> "Done"
      [] top = "Disabled" -> IF exists THEN "Enabled" ELSE "Disabled"

\* an else that enables its branch after a chain is Done
ElseEntry_Reopen(top) ==
    CASE top = "Enabled" -> "Done"
      [] top \in {"Disabled", "Done"} -> "Enabled"

\* Directive::Else: the entry pushed in place of the popped one
ElseEntry(top) ==
    CASE top = "Disabled" -> "Enabled"
      [] top \in {"Enabled", "Done"} -> "Done"

\* Directive::Ifdef | Directive::Ifndef | Directive::Elsif
HandleCond(s0, dir, span) ==
    Only({
    IF s.token.k # "Text"
    THEN Fail(s, "Expected macro name after ifdef", span)
    ELSE LET name == Extract(s.token.sp)
             exists == name \in DOMAIN s.macro_defs
             dc == s.defcond_stack
         IN CASE dir = "ifdef" ->
                   [Done([s EXCEPT !.defcond_stack = Append(dc, IfdefEntry(exists))])
                      EXCEPT !.arg = name]
              [] dir = "ifndef" ->
                   [Done([s EXCEPT !.defcond_stack = Append(dc, IfndefEntry(exists))])
                      EXCEPT !.arg = name]
              [] dir = "elsif" ->
                   IF dc = <<>>
                   THEN [Fail(s, "Found elsif without any preceeding ifdef, ifndef, or elsif directive", span)
                           EXCEPT !.arg = name]
                   ELSE [Done([s EXCEPT !.defcond_stack =
                                   Append(Front(dc), ElsifEntry(Top(dc), exists))])
                           EXCEPT !.arg = name]
    : s \in {SkipWs(Bump(s0))}})

\* Directive::Else
HandleElse(s, span) ==
    LET dc == s.defcond_stack IN
    IF dc = <<>>
    THEN Fail(s, "Found else without any preceeding ifdef, ifndef, or elsif directive", span)
    ELSE Done([s EXCEPT !.defcond_stack = Append(Front(dc), ElseEntry(Top(dc)))])

\* an endif that takes an empty stack for a balanced one
HandleEndif_NoCheck(s, span) ==
    Done([s EXCEPT !.defcond_stack = IF @ = <<>> THEN <<>> ELSE Front(@)])

\* Directive::Endif
HandleEndif(s, span) ==
    IF s.defcond_stack = <<>>
    THEN Fail(s, "Found endif without any preceeding ifdef, ifndef, else, or elsif directive", span)
    ELSE Done([s EXCEPT !.defcond_stack = Front(s.defcond_stack)])

----------------------------------------------------------------------------
(* handle_directive: include.                                              *)

\* a loop that takes the end of the input for the closing symbol
RECURSIVE ReadFilename_AcceptEnd(_, _, _, _)
ReadFilename_AcceptEnd(s, closing, filename, span) ==
    CASE s.token.k \in {closing, "None"} ->
           [s |-> s, filename |-> filename, err |-> "", span |-> NoSpan]
      [] s.token.k = "Newline" ->
           [s |-> s, filename |-> filename,
            err |-> "Expected end of included file's name before line break",
            span |-> s.token.sp]
      [] OTHER ->
           ReadFilename_AcceptEnd(Bump(s), closing,
                                  Append(filename, Extract(s.token.sp)), span)

\* the loop that accumulates the file name up to the closing symbol
RECURSIVE ReadFilename(_, _, _, _)
ReadFilename(s, closing, filename, span) ==
    CASE s.token.k = closing ->
           [s |-> s, filename |-> filename, err |-> "", span |-> NoSpan]
      [] s.token.k = "Newline" ->
           [s |-> s, filename |-> filename,
            err |-> "Expected end of included file's name before line break",
            span |-> s.token.sp]
      [] s.token.k = "None" ->
           [s |-> s, filename |-> filename,
            err |-> "Expected filename after include directive before the end of the input",
            span |-> span]
      [] OTHER ->
           Only({ReadFilename(n, closing, Append(filename, Extract(s.token.sp)), span) :
                    n \in {Bump(s)}})

\* SourceManager::open of prefix/filename: the path opened, "" for None
Open(prefix, filename) ==
    LET hit == {f \in Files : f.dir = prefix /\ f.name = filename} IN
    IF hit = {} THEN "" ELSE (CHOOSE f \in hit : TRUE).path

\* the loop of open_include over the prefices
RECURSIVE OpenFirst(_, _)
OpenFirst(prefices, filename) ==
    IF prefices = <<>> THEN ""
    ELSE IF Open(Head(prefices), filename) # ""
         THEN Open(Head(prefices), filename)
         ELSE OpenFirst(Tail(prefices), filename)

\* open_include trying the configured include paths before the directory
\* of the current file
OpenInclude_PathsFirst(filename, current_file) ==
    OpenFirst(include_paths \o <<Parent(current_file)>>, filename)

\* Preprocessor::open_include
OpenInclude(filename, current_file) ==
    OpenFirst(<<Parent(current_file)>> \o include_paths, filename)

\* a push of the stream that does not keep the content
PushStream_Unpinned(s, included) ==
    [s EXCEPT !.stack = Append(@, [source |-> included, pos |-> 0])]

\* self.contents.push(content); self.stack.push(Stream { .. })
PushStream(s, included) ==
    [s EXCEPT !.contents = Append(@, included),
              !.stack = Append(@, [source |-> included, pos |-> 0])]

\* Directive::Include
HandleInclude(s0, span) ==
    IF IsInactive(s0) THEN Done(s0)
    ELSE
    Only({
    IF s1.token.k \notin {"\"", "<"}
    THEN Fail(s1, "Expected filename inside double quotes or angular brackets after include", span)
    ELSE
    LET closing == IF s1.token.k = "\"" THEN "\"" ELSE ">"
        name_p == [s1.token.sp EXCEPT !.b = s1.token.sp.e]
    IN
    Only({
    IF r.err # "" THEN [Fail(r.s, r.err, r.span) EXCEPT !.file = r.filename]
    ELSE
    LET name_q == [r.s.token.sp EXCEPT !.e = r.s.token.sp.b]
        included == OpenInclude(r.filename, span.src)
    IN
    IF included = ""
    THEN [Fail(r.s, "Cannot open included file", Union(name_p, name_q))
            EXCEPT !.file = r.filename]
    ELSE [Done(PushStream(r.s, included)) EXCEPT !.file = r.filename]
    : r \in {ReadFilename(Bump(s1), closing, <<>>, span)}})
    : s1 \in {SkipWs(Bump(s0))}})

----------------------------------------------------------------------------
(* handle_directive: define.                                               *)

\* the loop that consumes the macro arguments after the opening parenthesis
RECURSIVE DefineArgs(_, _, _)
DefineArgs(s, args, span) ==
    IF s.token.k = ")" THEN [s |-> s, args |-> args, err |-> "", span |-> NoSpan]
    ELSE
    Only({
    IF s1.token.k # "Text"
    THEN [s |-> s1, args |-> args, err |-> "Expected macro argument", span |-> span]
    ELSE
    LET arg == [name |-> Extract(s1.token.sp), span |-> s1.token.sp] IN
    Only({
       CASE s2.token.k = "," ->
              Only({DefineArgs(n, Append(args, arg), span) : n \in {Bump(s2)}})
         [] s2.token.k = ")" ->
              [s |-> s2, args |-> Append(args, arg), err |-> "", span |-> NoSpan]
         [] s2.token.k = "None" ->
              [s |-> s2, args |-> Append(args, arg),
               err |-> "Expected closing parenthesis at the end of the macro definition",
               span |-> span]
         [] OTHER ->
              [s |-> s2, args |-> Append(args, arg),
               err |-> "Expected , or ) after macro argument name",
               span |-> s2.token.sp]
    : s2 \in {SkipWs(Bump(s1))}})
    : s1 \in {SkipWs(s)}})

\* the macro name consumed, and any whitespace after it with it
AfterName_SkipWs(s) == SkipWs(Bump(s))

\* self.bump() once the macro name has been read
AfterName(s) == Bump(s)

\* whether the token after the macro name opens the list of arguments
OpensArgs(s) == s.token.k = "("

\* the loop that consumes the macro definition up to the next newline not
\* preceded by a backslash
RECURSIVE DefineBody(_, _)
DefineBody(s, body) ==
    CASE s.token.k = "Newline" -> [s |-> s, body |-> body]
      [] s.token.k = "\\" ->
           Only({DefineBody(n, body) :
                    n \in {IF s1.token.k = "Newline" THEN Bump(s1) ELSE s1 :
                              s1 \in {Bump(s)}}})
      [] s.token.k = "None" -> [s |-> s, body |-> body]
      [] OTHER -> Only({DefineBody(n, Append(body, s.token)) : n \in {Bump(s)}})

\* an insert that keeps the definition the table already holds
Insert_KeepFirst(defs, name, makro) ==
    [n \in DOMAIN defs \cup {name} |-> IF n \in DOMAIN defs THEN defs[n] ELSE makro]

\* self.macro_defs.insert(name, makro)
Insert(defs, name, makro) ==
    [n \in DOMAIN defs \cup {name} |-> IF n = name THEN makro ELSE defs[n]]

\* Directive::Define
HandleDefine(s0, span) ==
    IF IsInactive(s0) THEN Done(s0)
    ELSE
    Only({
    IF s1.token.k # "Text"
    THEN Fail(s1, "Expected macro name after define", span)
    ELSE
    LET name == Extract(s1.token.sp)
        name_span == s1.token.sp
    IN
    Only({
    Only({
    IF a.err # "" THEN [Fail(a.s, a.err, a.span) EXCEPT !.arg = name]
    ELSE
    Only({
    LET makro == [name |-> name, span |-> name_span, args |-> a.args, body |-> b.body]
    IN [Done([b.s EXCEPT !.macro_defs = Insert(@, name, makro)])
          EXCEPT !.arg = name, !.mac = makro]
    : b \in {DefineBody(n, <<>>) :
               n \in {SkipWs(s3) : s3 \in {IF OpensArgs(s2) THEN Bump(a.s) ELSE a.s}}}})
    : a \in {IF OpensArgs(s2)
             THEN DefineArgs(n, <<>>, span)
             ELSE [s |-> s2, args |-> <<>>, err |-> "", span |-> NoSpan] :
             n \in {Bump(s2)}}})
    : s2 \in {AfterName(s1)}})
    : s1 \in {SkipWs(Bump(s0))}})

----------------------------------------------------------------------------
(* handle_directive: the use of a macro (Directive::Unknown).              *)

\* params.insert(arg.name.clone(), param_tokens)
InsertParam(params, name, toks) ==
    [n \in DOMAIN params \cup {name} |-> IF n = name THEN toks ELSE params[n]]

\* the inner loop with whitespace skipped instead of captured
RECURSIVE UseArg_SkipWhitespace(_, _, _)
UseArg_SkipWhitespace(s, param_tokens, nesting) ==
    CASE s.token.k = "Whitespace" ->
           UseArg_SkipWhitespace(Bump(s), param_tokens, nesting)
      [] s.token.k = "," /\ nesting = 0 ->
           [s |-> Bump(s), toks |-> param_tokens, end |-> "comma"]
      [] s.token.k = ")" /\ nesting = 0 ->
           [s |-> s, toks |-> param_tokens, end |-> "close"]
      [] s.token.k = "(" -> UseArg_SkipWhitespace(Bump(s), param_tokens, nesting + 1)
      [] s.token.k = ")" /\ nesting > 0 ->
           UseArg_SkipWhitespace(Bump(s), param_tokens, nesting - 1)
      [] s.token.k = "None" -> [s |-> s, toks |-> param_tokens, end |-> "eof"]
      [] OTHER -> UseArg_SkipWhitespace(Bump(s), Append(param_tokens, s.token), nesting)

\* the inner loop with every comma taken for the end of an argument
RECURSIVE UseArg_AnyComma(_, _, _)
UseArg_AnyComma(s, param_tokens, nesting) ==
    CASE s.token.k = "," ->
           [s |-> Bump(s), toks |-> param_tokens, end |-> "comma"]
      [] s.token.k = ")" /\ nesting = 0 ->
           [s |-> s, toks |-> param_tokens, end |-> "close"]
      [] s.token.k = "(" -> UseArg_AnyComma(Bump(s), param_tokens, nesting + 1)
      [] s.token.k = ")" /\ nesting > 0 ->
           UseArg_AnyComma(Bump(s), param_tokens, nesting - 1)
      [] s.token.k = "None" -> [s |-> s, toks |-> param_tokens, end |-> "eof"]
      [] OTHER -> UseArg_AnyComma(Bump(s), Append(param_tokens, s.token), nesting)

\* the inner loop: the tokens that make up one argument.  end says how the
\* loop was left: at a comma, at the closing parenthesis or at the end of
\* the input.
RECURSIVE UseArg(_, _, _)
UseArg(s, param_tokens, nesting) ==
    CASE s.token.k = "," /\ nesting = 0 ->
           [s |-> Bump(s), toks |-> param_tokens, end |-> "comma"]
      [] s.token.k = ")" /\ nesting = 0 ->
           [s |-> s, toks |-> param_tokens, end |-> "close"]
      [] s.token.k = "(" ->
           Only({UseArg(n, param_tokens, nesting + 1) : n \in {Bump(s)}})
      [] s.token.k = ")" /\ nesting > 0 ->
           Only({UseArg(n, param_tokens, nesting - 1) : n \in {Bump(s)}})
      [] s.token.k = "None" -> [s |-> s, toks |-> param_tokens, end |-> "eof"]
      [] OTHER ->
           Only({UseArg(n, Append(param_tokens, s.token), nesting) : n \in {Bump(s)}})

\* the outer loop: one formal argument per round
RECURSIVE UseArgs(_, _, _, _)
UseArgs(s, args, params, span) ==
    IF args = <<>>
    THEN [s |-> s, params |-> params, err |-> "Superfluous macro parameters",
          span |-> NoSpan]
    ELSE
    Only({
    CASE r.end = "eof" ->
           [s |-> r.s, params |-> params,
            err |-> "Expected closing parenthesis after macro parameters",
            span |-> span]
      [] r.end = "close" ->
           [s |-> r.s, params |-> InsertParam(params, Head(args).name, r.toks),
            err |-> "", span |-> NoSpan]
      [] r.end = "comma" ->
           UseArgs(r.s, Tail(args), InsertParam(params, Head(args).name, r.toks), span)
    : r \in {UseArg(s, <<>>, 0)}})

\* a replacement that gives the substituted tokens the span of the formal
\* they stand for
Substitute_AtUse(tkn, params) ==
    IF tkn.k = "Text" /\ Extract(tkn.sp) \in DOMAIN params
    THEN [i \in 1..Len(params[Extract(tkn.sp)]) |->
             [params[Extract(tkn.sp)][i] EXCEPT !.sp = tkn.sp]]
    ELSE <<tkn>>

\* the replacement of one body token
Substitute(tkn, params) ==
    IF tkn.k = "Text" /\ Extract(tkn.sp) \in DOMAIN params
    THEN params[Extract(tkn.sp)]
    ELSE <<tkn>>

\* a replacement that is scanned for formal names once more
Replacement_Rescan(body, params) ==
    IF DOMAIN params = {} THEN body
    ELSE LET once == Flatten([i \in 1..Len(body) |-> Substitute(body[i], params)])
         IN Flatten([i \in 1..Len(once) |-> Substitute(once[i], params)])

\* the tokens pushed for a macro body, in body order
Replacement(body, params) ==
    IF DOMAIN params = {} THEN body
    ELSE Flatten([i \in 1..Len(body) |-> Substitute(body[i], params)])

\* an extend that pushes the replacement in body order
Extend_InOrder(pending, replacement) == pending \o replacement

\* self.macro_stack.extend(replacement.iter().rev())
Extend(pending, replacement) == pending \o Reverse(replacement)

\* the macro the table holds for a use of dir_name
Lookup(defs, dir_name) == defs[dir_name]

\* Directive::Unknown
HandleUnknown(s0, dir_name, span) ==
    IF IsInactive(s0) THEN Done(s0)
    ELSE IF dir_name \notin DOMAIN s0.macro_defs
    THEN Fail(s0, "Unknown compiler directive", span)
    ELSE
    LET makro == Lookup(s0.macro_defs, dir_name) IN
    IF makro.args = <<>>
    THEN [Done([s0 EXCEPT !.macro_stack = Extend(@, Replacement(makro.body, NoParams))])
            EXCEPT !.mac = makro, !.pushed = Replacement(makro.body, NoParams)]
    ELSE
    Only({
    IF s1.token.k # "("
    THEN [Fail(s1, "Expected macro parameters in parentheses", span) EXCEPT !.mac = makro]
    ELSE
    Only({
    IF r.err # ""
    THEN [Fail(r.s, r.err, r.span) EXCEPT !.mac = makro, !.params = r.params]
    ELSE [Done([r.s EXCEPT !.macro_stack = Extend(@, Replacement(makro.body, r.params))])
            EXCEPT !.mac = makro, !.params = r.params,
                   !.pushed = Replacement(makro.body, r.params)]
    : r \in {UseArgs(n, makro.args, NoParams, span) : n \in {Bump(s1)}}})
    : s1 \in {SkipWs(Bump(s0))}})

----------------------------------------------------------------------------
(* The design the instantiation details are computed on (hir/nodes.rs).    *)
(*                                                                         *)
(*   module Top;  A iA();  B iB();                        endmodule        *)
(*   module A;    M #(pa) a1(), a2();                     endmodule        *)
(*   module B;    M #(pb) b1();                           endmodule        *)
(*   module M #(P = 0);  nb m1();                         endmodule        *)
(*   module L;                                            endmodule        *)
(*                                                                         *)
(* a1 and a2 share one InstTarget.  The actual parameters pa and pb and    *)
(* the name nb are left open: nb is L or U, the name of no module.         *)

NoDesign == [pa |-> <<>>, pb |-> <<>>, nb |-> "L"]

\* the lists of positional parameters a design may hold
ParamLists == {<<>>, <<0>>, <<1>>, <<1, 1>>}

Designs == [pa : {<<>>, <<1>>}, pb : ParamLists, nb : {"L", "U"}]

\* hir::Module
Module(id, params, insts) ==
    [kind |-> "Module", id |-> id, name |-> id, params |-> params, insts |-> insts]

\* hir::InstTarget
InstTarget(id, name, pos_params) ==
    [kind |-> "InstTarget", id |-> id,
     name |-> [value |-> name, span |-> <<id, "name">>],
     pos_params |-> pos_params]

\* hir::Inst
Inst(id, target) ==
    [kind |-> "Inst", id |-> id, name |-> [value |-> id, span |-> <<id, "name">>],
     target |-> target]

ModuleIds == {"Top", "A", "B", "M", "L"}
InstIds == {"iA", "iB", "a1", "a2", "b1", "m1"}
InstTargetIds == {"tA", "tB", "tAM", "tBM", "tMX"}

\* Context::hir_of
hir_of(id) ==
    CASE id = "Top" -> Module("Top", <<>>, <<"iA", "iB">>)
      [] id = "A" -> Module("A", <<>>, <<"a1", "a2">>)
      [] id = "B" -> Module("B", <<>>, <<"b1">>)
      [] id = "M" -> Module("M", <<[name |-> "P", default |-> 0]>>, <<"m1">>)
      [] id = "L" -> Module("L", <<>>, <<>>)
      [] id = "iA" -> Inst("iA", "tA")
      [] id = "iB" -> Inst("iB", "tB")
      [] id = "a1" -> Inst("a1", "tAM")
      [] id = "a2" -> Inst("a2", "tAM")
      [] id = "b1" -> Inst("b1", "tBM")
      [] id = "m1" -> Inst("m1", "tMX")
      [] id = "tA" -> InstTarget("tA", "A", <<>>)
      [] id = "tB" -> InstTarget("tB", "B", <<>>)
      [] id = "tAM" -> InstTarget("tAM", "M", design.pa)
      [] id = "tBM" -> InstTarget("tBM", "M", design.pb)
      [] id = "tMX" -> InstTarget("tMX", design.nb, <<>>)

\* GlobalContext::find_module: the id of the module of that name, "" for None
find_module(name) == IF name \in ModuleIds THEN name ELSE ""

----------------------------------------------------------------------------
(* The query context.  A query result is Ok(value) or Err(()).             *)

Ok(v) == [ok |-> TRUE, val |-> v]
Err == [ok |-> FALSE, val |-> <<>>]

NoCache == [key \in {} |-> Err]

\* ParamEnvData of the empty environment
NoBindings == [n \in {} |-> 0]

\* the handle of default_param_env
default_param_env == 1

(* The context: the cache of each query, the interned parameter            *)
(* environments (a handle is a place in envs), the diagnostics emitted and *)
(* the computations run, in order.                                         *)
NewContext ==
    [inst_details |-> NoCache, inst_target_details |-> NoCache,
     param_env |-> NoCache, envs |-> <<NoBindings>>, diags |-> <<>>, runs |-> <<>>]

NoAnswer == [query |-> "", id |-> "", env |-> 0, res |-> Err, hit |-> FALSE]

\* what a query hands back: the context it leaves and its result
Result(c, res) == [cx |-> c, res |-> res]

\* Context::emit
emit(c, severity, msg, span) ==
    [c EXCEPT !.diags = Append(@, [severity |-> severity, msg |-> msg, span |-> span])]

\* the cache of a query takes the result computed for a key
Store(cache, key, res) ==
    [k \in DOMAIN cache \cup {key} |-> IF k = key THEN res ELSE cache[k]]

\* a computation is recorded as run
Ran(c, query, key) == [c EXCEPT !.runs = Append(@, [query |-> query, key |-> key])]

\* a query answers from its cache
Cached(c, cache, key) == Result(c, cache[key])

\* the bindings of a module's parameters: the positional parameters bind
\* the leading ones, the others take their default
Bindings(params, pos) ==
    [n \in {params[i].name : i \in 1..Len(params)} |->
        LET i == CHOOSE j \in 1..Len(params) : params[j].name = n
        IN IF i <= Len(pos) THEN pos[i] ELSE params[i].default]

\* the interning of a ParamEnvData: structural equality is identity
intern_param_env(c, data) ==
    IF \E i \in 1..Len(c.envs) : c.envs[i] = data
    THEN Result(c, Ok(CHOOSE i \in 1..Len(c.envs) : c.envs[i] = data))
    ELSE Result([c EXCEPT !.envs = Append(@, data)], Ok(Len(c.envs) + 1))

\* the computation behind param_env, for ParamEnvSource::ModuleInst
compute_param_env(c, src) ==
    LET params == hir_of(src.module).params IN
    IF Len(src.pos) > Len(params)
    THEN Result(emit(Ran(c, "param_env", src), "error",
                     "superfluous positional parameter", <<src.inst, "pos">>), Err)
    ELSE intern_param_env(Ran(c, "param_env", src), Bindings(params, src.pos))

\* Context::param_env
param_env(c, src) ==
    IF src \in DOMAIN c.param_env THEN Cached(c, c.param_env, src)
    ELSE Only({Result([r.cx EXCEPT !.param_env = Store(@, src, r.res)], r.res) :
                  r \in {compute_param_env(c, src)}})

\* Context::param_env_data
param_env_data(c, env) == c.envs[env]

\* Context::port_mapping, for a design without port connections
port_mapping(c, src) == Result(c, Ok(src))

\* NodeId::env
NodeEnvId(id, env) == [id |-> id, env |-> env]

\* ParamEnvSource::ModuleInst of an instantiation target
ModuleInst(module, node, inst_target) ==
    [module |-> module, inst |-> node.id, env |-> node.env,
     pos |-> inst_target.pos_params]

\* compute_inst_target handing back the environment around the instance
compute_inst_target_OuterEnv(c, node) ==
    LET inst_target == hir_of(node.id)
        module == find_module(inst_target.name.value)
    IN IF module = ""
       THEN Result(emit(Ran(c, "inst_target_details", node), "error",
                        "unknown module or interface", inst_target.name.span), Err)
       ELSE Only({IF ~inst_env.res.ok THEN Result(inst_env.cx, Err)
                  ELSE Result(inst_env.cx,
                              Ok([inst_target |-> node.id, module |-> module,
                                  outer_env |-> node.env,
                                  inner_env |-> node.env,
                                  params |-> param_env_data(inst_env.cx, node.env)])) :
                     inst_env \in {param_env(Ran(c, "inst_target_details", node),
                                             ModuleInst(module, node, inst_target))}})

\* compute_inst_target
compute_inst_target(c, node) ==
    LET inst_target == hir_of(node.id)
        module == find_module(inst_target.name.value)
    IN IF module = ""
       THEN Result(emit(Ran(c, "inst_target_details", node), "error",
                        "unknown module or interface", inst_target.name.span), Err)
       ELSE Only({IF ~inst_env.res.ok THEN Result(inst_env.cx, Err)
                  ELSE Result(inst_env.cx,
                              Ok([inst_target |-> node.id, module |-> module,
                                  outer_env |-> node.env,
                                  inner_env |-> inst_env.res.val,
                                  params |-> param_env_data(inst_env.cx,
                                                            inst_env.res.val)])) :
                     inst_env \in {param_env(Ran(c, "inst_target_details", node),
                                             ModuleInst(module, node, inst_target))}})

\* Context::inst_target_details
inst_target_details(c, node) ==
    IF node \in DOMAIN c.inst_target_details
    THEN Cached(c, c.inst_target_details, node)
    ELSE Only({Result([r.cx EXCEPT !.inst_target_details = Store(@, node, r.res)],
                      r.res) :
                  r \in {compute_inst_target(c, node)}})

\* the ports bound under the env the query is keyed on
WithTarget_KeyEnv(node, target) ==
    IF ~target.res.ok THEN Result(target.cx, Err)
    ELSE Only({IF ~port_map.res.ok THEN Result(port_map.cx, Err)
               ELSE Result(port_map.cx,
                           Ok([inst |-> node.id, target |-> target.res.val,
                               ports |-> port_map.res.val])) :
                  port_map \in {port_mapping(target.cx,
                                             [module |-> target.res.val.module,
                                              inst |-> node.id,
                                              env |-> node.env])}})

\* the rest of compute_inst once the target details have been asked for
WithTarget(node, target) ==
    IF ~target.res.ok THEN Result(target.cx, Err)
    ELSE Only({IF ~port_map.res.ok THEN Result(port_map.cx, Err)
               ELSE Result(port_map.cx,
                           Ok([inst |-> node.id, target |-> target.res.val,
                               ports |-> port_map.res.val])) :
                  port_map \in {port_mapping(target.cx,
                                             [module |-> target.res.val.module,
                                              inst |-> node.id,
                                              env |-> target.res.val.inner_env])}})

\* compute_inst computing the target details itself, past the query
compute_inst_Direct(c, node) ==
    Only({WithTarget(node, target) :
             target \in {compute_inst_target(Ran(c, "inst_details", node),
                                             NodeEnvId(hir_of(node.id).target, node.env))}})

\* compute_inst reporting the failure of the target once more
compute_inst_Reemit(c, node) ==
    Only({IF ~target.res.ok
          THEN Result(emit(target.cx, "error", "unknown module or interface",
                           hir_of(hir_of(node.id).target).name.span), Err)
          ELSE WithTarget(node, target) :
             target \in {inst_target_details(Ran(c, "inst_details", node),
                                             NodeEnvId(hir_of(node.id).target, node.env))}})

\* compute_inst
compute_inst(c, node) ==
    Only({WithTarget(node, target) :
             target \in {inst_target_details(Ran(c, "inst_details", node),
                                             NodeEnvId(hir_of(node.id).target, node.env))}})

\* Context::inst_details
inst_details(c, node) ==
    IF node \in DOMAIN c.inst_details THEN Cached(c, c.inst_details, node)
    ELSE Only({Result([r.cx EXCEPT !.inst_details = Store(@, node, r.res)], r.res) :
                  r \in {compute_inst(c, node)}})

----------------------------------------------------------------------------
(* The root sources the model runs on.                                     *)

A == Tx("A")
KwIfdef == Tx("ifdef")
KwIfndef == Tx("ifndef")
KwElsif == Tx("elsif")
KwElse == Tx("else")
KwEndif == Tx("endif")

\* tests::include_and_define: test.sv
TestIncludeAndDefine ==
    <<Cm("// Hello"), Nl,
      Bt, KwInclude, Ws, Quote, Tx("other"), Sy("."), Tx("sv"), Quote, Nl,
      Bt, Tx("foo"), Ws, Tx("something"), Nl>>

\* tests::conditional_define
TestConditionalDefine ==
    <<Bt, KwIfdef, Ws, Tx("FOO"), Nl,
      Bt, KwDefine, Ws, Tx("BAR"), Nl,
      Bt, KwEndif, Nl,
      Bt, Tx("BAR")>>

\* tests::macro_args
TestMacroArgs ==
    <<Bt, KwDefine, Ws, Tx("foo"), Sy("("), Tx("x"), Sy(","), Tx("y"), Sy(")"), Ws,
      Sy("{"), Tx("x"), Ws, Sy("+"), Ws, Tx("y"), Ws, Tx("_bar"), Sy("}"), Nl,
      Bt, Tx("foo"), Sy("("), Dg("12"), Sy(","), Ws, Tx("foo"), Sy(")"), Nl>>

\* tests::macro_noargs_parentheses
TestMacroNoargsParentheses ==
    <<Bt, KwDefine, Ws, Tx("FOO"), Ws, Dg("4"), Nl,
      Bt, KwDefine, Ws, Tx("BAR"), Ws,
      Sy("("), Bt, Tx("FOO"), Sy("+"), Sy("$"), Tx("clog2"), Sy("("), Dg("2"), Sy(")"), Sy(")"), Nl,
      Bt, Tx("BAR")>>

Tests ==
    {TestIncludeAndDefine, TestConditionalDefine, TestMacroArgs,
     TestMacroNoargsParentheses}

\* a macro whose body holds an include directive followed by a token, and
\* a use of it
IncludeInMacroBody ==
    <<Bt, KwDefine, Ws, Tx("M"), Ws,
      Bt, KwInclude, Ws, Quote, Tx("defs"), Quote, Tx("y"), Nl,
      Bt, Tx("M"), Tx("z")>>

\* a macro used inside the body of another one, and redefined between two
\* uses of that other one
RedefineNested ==
    <<Bt, KwDefine, Ws, A, Ws, Tx("a1"), Nl,
      Bt, KwDefine, Ws, Tx("B"), Ws, Bt, A, Nl,
      Bt, Tx("B"),
      Bt, KwDefine, Ws, A, Ws, Tx("a2"), Nl,
      Bt, Tx("B")>>

\* two levels of define conditionals with every kind of arm
NestedConditionals ==
    <<Bt, KwDefine, Ws, A, Nl,
      Bt, KwIfdef, Ws, A, Nl,
      Bt, KwIfndef, Ws, A, Nl, Tx("x"),
      Bt, KwElsif, Ws, A, Nl, Tx("y"),
      Bt, KwElse, Nl, Tx("z"),
      Bt, KwEndif, Nl,
      Bt, KwElse, Nl, Tx("w"),
      Bt, KwEndif, Nl>>

\* a use with whitespace before the list of actual arguments, and an
\* actual argument in parentheses
UseWithSpaces ==
    <<Bt, KwDefine, Ws, Tx("M"), Sy("("), Tx("p"), Sy(","), Ws, Tx("q"), Ws, Sy(")"), Ws,
      Tx("q"), Sy("-"), Tx("p"), Nl,
      Bt, Tx("M"), Ws, Sy("("), Sy("("), Tx("v"), Sy(")"), Sy(","), Tx("p"), Ws, Sy(")")>>

\* a use whose first actual argument is the name of the second formal one
SinglePass ==
    <<Bt, KwDefine, Ws, Tx("m"), Sy("("), Tx("x"), Sy(","), Tx("y"), Sy(")"), Ws,
      Tx("x"), Ws, Tx("y"), Nl,
      Bt, Tx("m"), Sy("("), Tx("y"), Sy(","), Dg("1"), Sy(")")>>

\* a macro whose body is a use of itself, and a use of it
SelfUse ==
    <<Bt, KwDefine, Ws, Tx("M"), Ws, Bt, Tx("M"), Nl,
      Bt, Tx("M")>>

\* a macro whose body is a use of itself followed by a token, and a use of it
GrowingUse ==
    <<Bt, KwDefine, Ws, Tx("M"), Ws, Bt, Tx("M"), Tx("x"), Nl,
      Bt, Tx("M")>>

\* a root source that includes itself
SelfInclude ==
    <<Bt, KwInclude, Ws, Quote, Tx("test"), Sy("."), Tx("sv"), Quote, Nl>>

Scenarios ==
    {IncludeInMacroBody, RedefineNested, NestedConditionals, UseWithSpaces, SinglePass,
     SelfUse, GrowingUse, SelfInclude}

\* a macro with two formal arguments, and the start of a use of it
DefineM2 ==
    <<Bt, KwDefine, Ws, Tx("M"), Sy("("), Tx("p"), Sy(","), Tx("q"), Sy(")"), Ws,
      Tx("p"), Ws, Tx("q"), Sy("+"), Tx("r"), Nl>>

\* the tokens enumerated lists of actual arguments are made of
UseTokens == {Sy("("), Sy(")"), Sy(","), Ws, Tx("v"), Tx("p")}

\* a definition of M(p,q) and a use of M with an enumerated list of
\* actual arguments
UsePrograms ==
    {DefineM2 \o <<Bt, Tx("M"), Sy("(")>> \o u :
        u \in UNION {[1..n -> UseTokens] : n \in 0..MaxUse}}

\* the tokens enumerated definitions are made of
DefTokens == {Sy("("), Sy(")"), Sy(","), Ws, Tx("p"), Bsl, Nl}

\* an enumerated definition of M, and a use of M
DefPrograms ==
    {<<Bt, KwDefine, Ws, Tx("M")>> \o d \o <<Nl, Bt, Tx("M"), Sy("("), Tx("v"), Sy(")")>> :
        d \in UNION {[1..n -> DefTokens] : n \in 0..MaxDef}}

\* the pieces enumerated root sources are made of
Items ==
    { <<Tx("x")>>,
      <<Bt, KwDefine, Ws, A, Ws, Tx("a1"), Nl>>,
      <<Bt, KwDefine, Ws, A, Ws, Tx("a2"), Nl>>,
      <<Bt, A>>,
      <<Bt, KwIfdef, Ws, A, Nl>>,
      <<Bt, KwIfndef, Ws, A, Nl>>,
      <<Bt, KwElsif, Ws, A, Nl>>,
      <<Bt, KwElse, Nl>>,
      <<Bt, KwEndif, Nl>>,
      <<Bt, KwInclude, Ws, Quote, Tx("defs"), Quote, Nl>>,
      <<Bt, Tx("undef"), Ws, A, Nl>>,
      <<Bt, Tx("undefineall"), Nl>>,
      <<Bt, Bt>> }

ItemPrograms ==
    {Flatten(p) : p \in UNION {[1..n -> Items] : n \in 0..MaxItems}}

\* the tokens directive-free root sources are made of
PlainTokens == {Tx("x"), Ws, Nl, Cm("// c"), Sy("(")}

PlainPrograms == UNION {[1..n -> PlainTokens] : n \in 0..MaxPlain}

\* the pieces enumerated root sources with include directives are made of:
\* well-formed and malformed directives, names found beside the root
\* source, under an include path and nowhere, and a use of the macro that
\* lib defines
IncludeItems ==
    { <<Tx("x")>>,
      <<Bt, KwInclude, Ws, Quote, Tx("defs"), Quote, Nl>>,
      <<Bt, KwInclude, Ws, Sy("<"), Tx("lib"), Sy(">"), Nl>>,
      <<Bt, KwInclude, Quote, Tx("far"), Quote>>,
      <<Bt, KwInclude, Ws, Quote, Tx("nofile"), Quote, Nl>>,
      <<Bt, KwInclude, Ws, Tx("defs"), Nl>>,
      <<Bt, KwInclude, Ws, Quote, Tx("defs"), Nl>>,
      <<Bt, KwInclude, Ws, Sy("<"), Tx("far")>>,
      <<Bt, KwInclude, Ws, Quote, Tx("cut"), Quote, Nl>>,
      <<Bt, Tx("L")>>,
      <<Bt, KwIfdef, Ws, A, Nl>> }

IncludePrograms ==
    {Flatten(p) : p \in UNION {[1..n -> IncludeItems] : n \in 0..MaxIncl}}

Programs ==
    Tests \cup Scenarios \cup ItemPrograms \cup PlainPrograms
        \cup UsePrograms \cup DefPrograms \cup IncludePrograms

----------------------------------------------------------------------------
(* The calls of next().                                                    *)

NoLast ==
    [act |-> "", name |-> "", span |-> NoSpan, inactive |-> FALSE,
     arg |-> "", mac |-> NoMacro, params |-> NoParams, pushed |-> <<>>,
     file |-> <<>>]

Returned(kind, tok, msg, span) ==
    [kind |-> kind, tok |-> tok, msg |-> msg, span |-> span]

Init ==
    /\ root \in Programs
    /\ stack = New.stack
    /\ contents = New.contents
    /\ token = New.token
    /\ macro_defs = New.macro_defs
    /\ macro_stack = New.macro_stack
    /\ defcond_stack = New.defcond_stack
    /\ ret = Returned("Init", NoToken, "", NoSpan)
    /\ out = <<>>
    /\ last = NoLast
    /\ design = NoDesign
    /\ cx = NewContext
    /\ visitors = <<>>
    /\ visited = <<>>
    /\ answer = NoAnswer
    /\ calls = 0

\* a call of next() is running: the latest iteration ended in continue
Running == ret.kind = "Cont"

\* next() bumping at every call, whether or not a token is at hand
AtLoop_AlwaysBump == IF ~Running THEN Bump(Cur) ELSE Cur

\* the preprocessor at the head of the main loop: a call that starts bumps
\* when no token has been read
AtLoop == IF ~Running /\ token.k = "None" THEN Bump(Cur) ELSE Cur

\* the preprocessor after the backtick has been consumed
AfterBacktick == Bump(AtLoop)

dir_name == Extract(AfterBacktick.token.sp)
dir_span == Union(AtLoop.token.sp, AfterBacktick.token.sp)

IsDirective == AtLoop.token.k = "BACKTICK" /\ AfterBacktick.token.k = "Text"

Becomes(s) ==
    /\ stack' = s.stack
    /\ contents' = s.contents
    /\ token' = s.token
    /\ macro_defs' = s.macro_defs
    /\ macro_stack' = s.macro_stack
    /\ defcond_stack' = s.defcond_stack
    /\ root' = root
    /\ UNCHANGED ivars

\* the directive branch of next(): Err is returned as it is, Ok(()) bumps
\* and continues the loop
Handled(act, r) ==
    /\ Len(r.s.stack) <= MaxStreams
    /\ Len(r.s.macro_stack) <= MaxPending
    /\ IF r.err # ""
       THEN /\ Becomes(r.s)
            /\ ret' = Returned("Err", NoToken, r.err, r.span)
       ELSE /\ Becomes(Bump(r.s))
            /\ ret' = Returned("Cont", NoToken, "", NoSpan)
    /\ out' = out
    /\ last' = [act |-> act, name |-> dir_name, span |-> dir_span,
                inactive |-> IsInactive(AtLoop), arg |-> r.arg, mac |-> r.mac,
                params |-> r.params, pushed |-> r.pushed, file |-> r.file]

Alive == ret.kind # "Panic"

Include ==
    /\ Alive /\ IsDirective /\ DirectiveOf(dir_name) = "include"
    /\ \E r \in {HandleInclude(s0, dir_span) : s0 \in {AfterBacktick}} : Handled("Include", r)

Define ==
    /\ Alive /\ IsDirective /\ DirectiveOf(dir_name) = "define"
    /\ \E r \in {HandleDefine(s0, dir_span) : s0 \in {AfterBacktick}} : Handled("Define", r)

Conditional ==
    /\ Alive /\ IsDirective /\ DirectiveOf(dir_name) \in {"ifdef", "ifndef", "elsif"}
    /\ \E r \in {HandleCond(s0, DirectiveOf(dir_name), dir_span) : s0 \in {AfterBacktick}} : Handled("Conditional", r)

Else ==
    /\ Alive /\ IsDirective /\ DirectiveOf(dir_name) = "else"
    /\ \E r \in {HandleElse(s0, dir_span) : s0 \in {AfterBacktick}} : Handled("Else", r)

Endif ==
    /\ Alive /\ IsDirective /\ DirectiveOf(dir_name) = "endif"
    /\ \E r \in {HandleEndif(s0, dir_span) : s0 \in {AfterBacktick}} : Handled("Endif", r)

MacroUse ==
    /\ Alive /\ IsDirective /\ DirectiveOf(dir_name) = "unknown"
    /\ \E r \in {HandleUnknown(s0, dir_name, dir_span) : s0 \in {AfterBacktick}} : Handled("MacroUse", r)

\* x => panic!("Preprocessor directive {:?} not implemented", x)
NotImplemented ==
    /\ Alive /\ IsDirective /\ DirectiveOf(dir_name) \in {"undef", "undefineall"}
    /\ Becomes(AfterBacktick)
    /\ ret' = Returned("Panic", NoToken, "Preprocessor directive not implemented", NoSpan)
    /\ out' = out
    /\ last' = [NoLast EXCEPT !.act = "NotImplemented", !.name = dir_name,
                              !.span = dir_span, !.inactive = IsInactive(AtLoop)]

\* a backtick that no text follows
StrayBacktick ==
    /\ Alive /\ AtLoop.token.k = "BACKTICK" /\ AfterBacktick.token.k # "Text"
    /\ Becomes(AfterBacktick)
    /\ ret' = IF AfterBacktick.token.k = "BACKTICK"
              THEN Returned("Err", NoToken,
                            "Preprocessor concatenation used outside of define",
                            Union(AtLoop.token.sp, AfterBacktick.token.sp))
              ELSE Returned("Err", NoToken, "Expected compiler directive after backtick",
                            AtLoop.token.sp)
    /\ out' = out
    /\ last' = [NoLast EXCEPT !.act = "StrayBacktick", !.inactive = IsInactive(AtLoop)]

\* a token inside a disabled define conditional: bump and continue
Skip ==
    /\ Alive /\ AtLoop.token.k # "BACKTICK" /\ IsInactive(AtLoop)
    /\ Becomes(Bump(AtLoop))
    /\ ret' = Returned("Cont", NoToken, "", NoSpan)
    /\ out' = out
    /\ last' = [NoLast EXCEPT !.act = "Skip", !.inactive = TRUE]

\* any other token is returned
Emit ==
    /\ Alive /\ AtLoop.token.k \notin {"BACKTICK", "None"} /\ ~IsInactive(AtLoop)
    /\ Len(out) < MaxOut
    /\ Becomes(Bump(AtLoop))
    /\ ret' = Returned("Ok", AtLoop.token, "", NoSpan)
    /\ out' = Append(out, AtLoop.token)
    /\ last' = [NoLast EXCEPT !.act = "Emit"]

\* self.token.map(|x| Ok(x)) of no token: the end of the sequence
EndOfStream ==
    /\ Alive /\ AtLoop.token.k = "None" /\ ~IsInactive(AtLoop)
    /\ Becomes(Bump(AtLoop))
    /\ ret' = Returned("None", NoToken, "", NoSpan)
    /\ out' = out
    /\ last' = [NoLast EXCEPT !.act = "EndOfStream"]

Next ==
    \/ Include
    \/ Define
    \/ Conditional
    \/ Else
    \/ Endif
    \/ MacroUse
    \/ NotImplemented
    \/ StrayBacktick
    \/ Skip
    \/ Emit
    \/ EndOfStream

Spec == Init /\ [][Next]_vars

\* the root sources whose runs are followed to their end
FairPrograms == Tests \cup Scenarios \cup {Flatten(<<i>>) : i \in Items}

FairInit == Init /\ root \in FairPrograms

\* the loop of next() goes on as long as it can: an iteration that can be
\* taken is taken
FairSpec == FairInit /\ [][Next]_vars /\ WF_vars(Next)

----------------------------------------------------------------------------
(* The instantiation details: the queries a caller asks, and the walk of   *)
(* the verbosity visitor.  A step is one query, computed to its end with   *)
(* the queries it asks, or one step of a walk: the visit of one instance   *)
(* or the return from a module body.                                       *)

\* InstVerbosityVisitor::new
NewVisitor == [env |-> default_param_env]

\* what visit_inst does with the details it asked for; after is the
\* visitor itself once the visit is over
Visit(details, self, after, hir) ==
    IF ~details.res.ok
    THEN [cx |-> details.cx, details |-> details.res, self |-> self,
          descend |-> FALSE, child |-> self, module |-> ""]
    ELSE [cx |-> emit(details.cx, "note", "instantiation details", hir.name.span),
          details |-> details.res,
          self |-> after,
          descend |-> TRUE,
          child |-> [env |-> details.res.val.target.inner_env],
          module |-> details.res.val.target.module]

\* a visit_inst that goes on as the visitor of the target module
visit_inst_Descend(c, self, hir) ==
    Only({Visit(details, self, [env |-> details.res.val.target.inner_env], hir) :
             details \in {inst_details(c, NodeEnvId(hir.id, self.env))}})

\* InstVerbosityVisitor::visit_inst: the context it leaves, the visitor
\* itself afterwards, and the visitor it makes for the target module
visit_inst(c, self, hir) ==
    Only({Visit(details, self, self, hir) :
             details \in {inst_details(c, NodeEnvId(hir.id, self.env))}})

\* a visitor at work on the body of a module: at is the instance it visits
\* next
Frame(visitor, module) == [env |-> visitor.env, module |-> module, at |-> 1]

InstInit ==
    /\ root = <<>>
    /\ stack = New.stack
    /\ contents = New.contents
    /\ token = New.token
    /\ macro_defs = New.macro_defs
    /\ macro_stack = New.macro_stack
    /\ defcond_stack = New.defcond_stack
    /\ ret = Returned("Init", NoToken, "", NoSpan)
    /\ out = <<>>
    /\ last = NoLast
    /\ design \in Designs
    /\ cx = NewContext
    /\ visitors = <<>>
    /\ visited = <<>>
    /\ answer = NoAnswer
    /\ calls = 0

\* a caller asks inst_details(id, env)
CallInstDetails ==
    /\ visitors = <<>> /\ calls < MaxCalls
    /\ \E id \in InstIds, env \in 1..Len(cx.envs) :
          \E r \in {inst_details(cx, NodeEnvId(id, env))} :
          /\ cx' = r.cx
          /\ answer' = [query |-> "inst_details", id |-> id, env |-> env,
                        res |-> r.res,
                        hit |-> NodeEnvId(id, env) \in DOMAIN cx.inst_details]
    /\ calls' = calls + 1
    /\ UNCHANGED <<design, visitors, visited>>
    /\ UNCHANGED pvars

\* a caller asks inst_target_details(id, env)
CallInstTargetDetails ==
    /\ visitors = <<>> /\ calls < MaxCalls
    /\ \E id \in InstTargetIds, env \in 1..Len(cx.envs) :
          \E r \in {inst_target_details(cx, NodeEnvId(id, env))} :
          /\ cx' = r.cx
          /\ answer' = [query |-> "inst_target_details", id |-> id, env |-> env,
                        res |-> r.res,
                        hit |-> NodeEnvId(id, env) \in DOMAIN cx.inst_target_details]
    /\ calls' = calls + 1
    /\ UNCHANGED <<design, visitors, visited>>
    /\ UNCHANGED pvars

\* a new visitor is sent into the body of a module
Walk ==
    /\ visitors = <<>> /\ calls < MaxCalls
    /\ \E m \in ModuleIds :
          /\ visitors' = <<Frame(NewVisitor, m)>>
          /\ visited' = Append(visited, [module |-> m, env |-> NewVisitor.env])
          /\ answer' = [NoAnswer EXCEPT !.query = "walk", !.id = m,
                                        !.env = NewVisitor.env]
    /\ calls' = calls + 1
    /\ UNCHANGED <<design, cx>>
    /\ UNCHANGED pvars

\* the topmost visitor visits the next instance of its module, and on
\* success a visitor of its making enters the target module
VisitInst ==
    /\ visitors # <<>>
    /\ Top(visitors).at <= Len(hir_of(Top(visitors).module).insts)
    /\ LET top == Top(visitors)
           hir == hir_of(hir_of(top.module).insts[top.at])
       IN \E v \in {visit_inst(cx, [env |-> top.env], hir)} :
          /\ cx' = v.cx
          /\ visitors' =
                Append(Front(visitors), [top EXCEPT !.env = v.self.env, !.at = @ + 1])
                    \o (IF v.descend THEN <<Frame(v.child, v.module)>> ELSE <<>>)
          /\ visited' =
                IF v.descend
                THEN Append(visited, [module |-> v.module, env |-> v.child.env])
                ELSE visited
          /\ answer' = [query |-> "visit_inst", id |-> hir.id, env |-> top.env,
                        res |-> v.details,
                        hit |-> NodeEnvId(hir.id, top.env) \in DOMAIN cx.inst_details]
    /\ UNCHANGED <<design, calls>>
    /\ UNCHANGED pvars

\* the topmost visitor has visited every instance of its module
Return ==
    /\ visitors # <<>>
    /\ Top(visitors).at > Len(hir_of(Top(visitors).module).insts)
    /\ visitors' = Front(visitors)
    /\ answer' = [NoAnswer EXCEPT !.query = "return", !.id = Top(visitors).module,
                                  !.env = Top(visitors).env]
    /\ UNCHANGED <<design, cx, visited, calls>>
    /\ UNCHANGED pvars

InstNext ==
    \/ CallInstDetails
    \/ CallInstTargetDetails
    \/ Walk
    \/ VisitInst
    \/ Return

InstSpec == InstInit /\ [][InstNext]_vars

----------------------------------------------------------------------------
(* Properties.                                                             *)

NoBacktick(src) == \A i \in 1..Len(src) : src[i].k # "BACKTICK"

\* the i-th item of the lexer's stream over the root source
Lexed(i) == [k |-> root[i].k, sp |-> [src |-> RootPath, b |-> i - 1, e |-> i]]

Inactive(dc) == dc # <<>> /\ dc[Len(dc)] \in {"Disabled", "Done"}

\* the run has ended: the latest call returned the end of the sequence, a
\* fatal diagnostic, or panicked
Ended == ret.kind \in {"None", "Err", "Panic"}

(* C1: token conservation.  For a root source whose lexer stream holds no  *)
(* backtick, the Ok items returned so far are the first items of the       *)
(* lexer's stream (same kinds, same spans, same order), every iteration of *)
(* next() returns (nothing is dropped, no diagnostic), and the end of the  *)
(* sequence is returned exactly when all of the stream has been returned.  *)
C1_TokenConservation ==
    NoBacktick(root) =>
        /\ Len(out) <= Len(root)
        /\ \A i \in 1..Len(out) : out[i] = Lexed(i)
        /\ ret.kind \in {"Init", "Ok", "None"}
        /\ ret.kind = "Ok" => ret.tok = Lexed(Len(out))
        /\ ret.kind = "None" => Len(out) = Len(root)

C1_Witness ==
    /\ NoBacktick(root) /\ Len(root) >= 3
    /\ \E i \in 1..Len(root) : root[i].k = "Whitespace"
    /\ ret.kind = "None" /\ Len(out) = Len(root)

(* C2: conditional exclusion.  A token returned by next() lies in no       *)
(* region whose conditional entry is Disabled or Done: when an Ok item is  *)
(* returned, every entry of the conditional stack, not only the top, is    *)
(* Enabled.                                                                *)
C2_ConditionalExclusion ==
    ret.kind = "Ok" => \A i \in 1..Len(defcond_stack) : defcond_stack[i] = "Enabled"

(* C3: include splicing order.  Once an include has pushed a stream, no    *)
(* token is returned before the first token of that stream has been read:  *)
(* the tokens of the included source come before every token that follows  *)
(* the directive, whether it follows in a stream or in a macro body that   *)
(* is being played back.                                                   *)
C3_IncludeSplicing ==
    [][ret'.kind = "Ok" =>
         \A i \in 2..Len(stack) :
             stack[i].pos > 0 \/ Content(stack[i].source) = <<>>]_vars

Texts(toks) == [i \in 1..Len(toks) |-> Extract(toks[i].sp)]

\* the names of the formal arguments of a macro
Formals(mac) == {mac.args[i].name : i \in 1..Len(mac.args)}

\* a body with each Text token that names a captured formal argument
\* replaced by the tokens captured for it
RECURSIVE Expanded(_, _)
Expanded(body, params) ==
    IF body = <<>> THEN <<>>
    ELSE LET h == Head(body) IN
         (IF h.k = "Text" /\ Extract(h.sp) \in DOMAIN params
          THEN params[Extract(h.sp)] ELSE <<h>>) \o Expanded(Tail(body), params)

\* toks have just been pushed for playback: the first one is the current
\* token and the others lie on top of the pending stack, first on top
PlayedBack(toks, tk, pending) ==
    toks # <<>> =>
        /\ tk = toks[1]
        /\ Len(pending) >= Len(toks) - 1
        /\ \A i \in 2..Len(toks) : pending[Len(pending) + 2 - i] = toks[i]

\* the latest iteration used, in an active region, a macro and went on
UsedMacro == last.act = "MacroUse" /\ ret.kind = "Cont" /\ ~last.inactive

(* C5: macro expansion with arguments.  When a macro with formals f1..fn   *)
(* is used with an actual argument for each of them, the tokens queued for *)
(* playback are the body tokens in body order, each Text token that names  *)
(* a formal replaced by the tokens captured for it and every other token   *)
(* (whitespace too) unchanged; a whitespace token of the root source that  *)
(* lies between the parentheses of the use is part of a captured sequence. *)
(* The source of tests::macro_args yields "{12 +  foo _bar}\n".            *)
C5_MacroArgs ==
    /\ (UsedMacro /\ last.mac.args # <<>> /\ DOMAIN last.params = Formals(last.mac)) =>
          /\ last.pushed = Expanded(last.mac.body, last.params)
          /\ PlayedBack(last.pushed, token, macro_stack)
          /\ (stack # <<>> /\ stack[1].source = RootPath /\ Len(stack) = 1
                /\ last.span.src = RootPath /\ last.pushed # <<>>) =>
                \A i \in (last.span.e + 1)..(stack[1].pos - 1) :
                    (root[i].k = "Whitespace" /\ \E j \in (last.span.e + 1)..(i - 1) : root[j].k = "(") =>
                        \E f \in DOMAIN last.params :
                            \E j \in 1..Len(last.params[f]) : last.params[f][j] = Lexed(i)
    /\ (root = TestMacroArgs /\ ret.kind = "None") =>
          Texts(out) = <<"{", "12", " ", "+", " ", " ", "foo", " ", "_bar", "}", "\n">>

C5_Witness ==
    /\ root = UseWithSpaces /\ UsedMacro
    /\ Texts(last.pushed) = <<"p", " ", "-", "v">>
    /\ Texts(last.params["q"]) = <<"p", " ">>

\* the latest iteration stored, in an active region, a macro and went on
Defined == last.act = "Define" /\ ret.kind = "Cont" /\ ~last.inactive

\* the directive of the latest iteration was read from the root source
\* alone: no other stream and no macro body was being read
FromRoot ==
    /\ last.span.src = RootPath
    /\ \A i \in 1..Len(stack) : stack[i].source = RootPath
    /\ contents = <<RootPath>>
    /\ macro_stack = <<>> /\ last.pushed = <<>>

\* the root source holds a token of kind k at index i
RootHas(i, k) == i <= Len(root) /\ root[i].k = k

(* C6: in a define, an open parenthesis starts the list of formal          *)
(* arguments only when it is the token right after the macro name.  With   *)
(* any other token there (whitespace before a parenthesis too) the macro   *)
(* has no formals and, after one optional whitespace token, the body       *)
(* starts right there: the parenthesis is the first body token.  A use of  *)
(* a macro without formals queues the whole body and reads no token of a   *)
(* list of arguments.  The source of tests::macro_noargs_parentheses       *)
(* yields "(4+$clog2(2))".                                                 *)
C6_ParenAfterName ==
    /\ [](/\ (Defined /\ FromRoot) =>
               LET n == last.mac.span.e IN
               /\ ~RootHas(n + 1, "(") => last.mac.args = <<>>
               /\ (RootHas(n + 1, "Whitespace") /\ RootHas(n + 2, "(")) =>
                     /\ last.mac.args = <<>>
                     /\ last.mac.body # <<>>
                     /\ last.mac.body[1] = Lexed(n + 2)
               /\ RootHas(n + 1, "(") =>
                     \A j \in 1..Len(last.mac.body) : last.mac.body[j] # Lexed(n + 1)
          /\ (root = TestMacroNoargsParentheses /\ ret.kind = "None") =>
               Texts(out) = <<"(", "4", "+", "$", "clog2", "(", "2", ")", ")">>)
    /\ [][(last'.act = "MacroUse" /\ ret'.kind = "Cont" /\ ~last'.inactive
             /\ last'.mac.args = <<>>) =>
            /\ last'.pushed = last'.mac.body
            /\ last'.params = NoParams
            /\ last'.mac.body # <<>> =>
                 /\ PlayedBack(last'.mac.body, token', macro_stack')
                 /\ (macro_stack = <<>> /\ Len(stack) = 1) =>
                       stack' = [stack EXCEPT ![1].pos = @ + 1]]_vars

C6_Witness ==
    /\ root = TestMacroNoargsParentheses
    /\ UsedMacro /\ last.name = "BAR" /\ last.mac.args = <<>>
    /\ Texts(last.mac.body) = <<"(", "BACKTICK", "FOO", "+", "$", "clog2", "(", "2", ")", ")">>
    /\ token = last.mac.body[1]

(* C7: macro dynamism.  An active define stores the definition it has just *)
(* read under its name, in place of any earlier one and leaving the other  *)
(* definitions alone; a use queues the body that the table holds when the  *)
(* use is processed.  No step changes an Ok item already returned or a     *)
(* token already pending: the pending stack changes at its top only.  The  *)
(* source RedefineNested, whose macro B uses A, yields a1 for the use of B *)
(* before the redefinition of A and a2 for the use after it.               *)
C7_MacroDynamism ==
    /\ [](/\ Defined =>
               /\ last.arg \in DOMAIN macro_defs
               /\ macro_defs[last.arg] = last.mac
               /\ last.mac.name = last.arg
               /\ \A j \in 1..Len(last.mac.body) :
                     last.mac.body[j].sp.src = last.span.src =>
                         last.mac.body[j].sp.b >= last.span.e
          /\ (root = RedefineNested /\ ret.kind = "None") => Texts(out) = <<"a1", "a2">>)
    /\ [][/\ (last'.act = "Define" /\ ret'.kind = "Cont" /\ ~last'.inactive) =>
               /\ DOMAIN macro_defs' = DOMAIN macro_defs \cup {last'.arg}
               /\ \A n \in DOMAIN macro_defs : n # last'.arg => macro_defs'[n] = macro_defs[n]
          /\ (last'.act = "MacroUse" /\ ret'.kind = "Cont" /\ ~last'.inactive) =>
               /\ last'.name \in DOMAIN macro_defs
               /\ last'.mac = macro_defs[last'.name]
               /\ last'.pushed = Expanded(macro_defs[last'.name].body, last'.params)
               /\ PlayedBack(last'.pushed, token', macro_stack')
               /\ macro_defs' = macro_defs
          /\ \E x \in {ret'.tok} : out' = out \/ out' = Append(out, x)
          /\ LET new == IF last'.pushed = <<>> THEN 0 ELSE Len(last'.pushed) - 1
                 kept == Len(macro_stack') - new
             IN /\ kept >= 0 /\ kept <= Len(macro_stack)
                /\ SubSeq(macro_stack', 1, kept) = SubSeq(macro_stack, 1, kept)]_vars

C7_Witness ==
    /\ root = RedefineNested
    /\ Texts(out) = <<"a1">>
    /\ UsedMacro /\ last.name = "A" /\ Texts(last.pushed) = <<"a2">>

\* the top entry that an elsif or an else puts in place of the entry top
AfterElsif(top, exists) ==
    IF top \in {"Enabled", "Done"} THEN "Done"
    ELSE IF exists THEN "Enabled" ELSE "Disabled"
AfterElse(top) == IF top = "Disabled" THEN "Enabled" ELSE "Done"

(* C8: the transitions of the conditional stack.  ifdef N pushes Enabled   *)
(* iff N is a key of the macro table, else Disabled; ifndef N the other    *)
(* way round; elsif N and else replace the top entry alone; endif pops one *)
(* entry.  The entries below the top stay as they are, and no other step   *)
(* changes the stack.                                                      *)
C8_CondTransitions ==
    [][LET dc == defcond_stack
           exists == last'.arg \in DOMAIN macro_defs
           ok == ret'.kind = "Cont"
           dir == last'.name
       IN /\ (last'.act = "Conditional" /\ ok /\ dir = "ifdef") =>
                defcond_stack' = Append(dc, IF exists THEN "Enabled" ELSE "Disabled")
          /\ (last'.act = "Conditional" /\ ok /\ dir = "ifndef") =>
                defcond_stack' = Append(dc, IF exists THEN "Disabled" ELSE "Enabled")
          /\ (last'.act = "Conditional" /\ ok /\ dir = "elsif") =>
                /\ dc # <<>>
                /\ defcond_stack' = [dc EXCEPT ![Len(dc)] = AfterElsif(@, exists)]
          /\ (last'.act = "Else" /\ ok) =>
                /\ dc # <<>>
                /\ defcond_stack' = [dc EXCEPT ![Len(dc)] = AfterElse(@)]
          /\ (last'.act = "Endif" /\ ok) =>
                /\ dc # <<>>
                /\ defcond_stack' = SubSeq(dc, 1, Len(dc) - 1)
          /\ (last'.act \notin {"Conditional", "Else", "Endif"} \/ ~ok) =>
                defcond_stack' = dc
          /\ last'.act = "Conditional" => (ok <=> last'.arg # "" /\ (dir = "elsif" => dc # <<>>))
          /\ macro_defs' # macro_defs => last'.act = "Define"]_vars

C8_Witness ==
    /\ root = NestedConditionals
    /\ last.act = "Conditional" /\ last.name = "elsif" /\ last.arg = "A"
    /\ ret.kind = "Cont"
    /\ defcond_stack = <<"Enabled", "Enabled">>

(* C9: unbalanced conditional.  An else, an elsif or an endif processed    *)
(* while the conditional stack is empty returns a fatal diagnostic on that *)
(* directive's span, and the stack is empty afterwards.                    *)
C9_Unbalanced ==
    [][(last'.act \in {"Conditional", "Else", "Endif"}
          /\ last'.name \in {"else", "elsif", "endif"}
          /\ defcond_stack = <<>>) =>
         /\ ret'.kind = "Err"
         /\ ret'.span = last'.span
         /\ defcond_stack' = <<>>]_vars

C9_Witness ==
    /\ last.act = "Conditional" /\ last.name = "elsif" /\ last.arg = "A"
    /\ ret.kind = "Err" /\ defcond_stack = <<>>
    /\ out # <<>>

\* every stream is exhausted, nothing is pending and no token is at hand
Exhausted ==
    /\ token.k = "None"
    /\ macro_stack = <<>>
    /\ \A i \in 1..Len(stack) : stack[i].pos = Len(Content(stack[i].source))

(* C10: end of sequence.  Once every stream is exhausted and nothing is    *)
(* pending, the next iteration of next() returns the end of the sequence,  *)
(* whatever the conditional stack holds.                                   *)
C10_EndOfSequence == (Exhausted /\ Alive) => ENABLED EndOfStream

\* the arms of next() that call handle_directive
DirectiveActs == {"Include", "Define", "Conditional", "Else", "Endif", "MacroUse"}

(* C11: a fatal diagnostic ends the iteration.  Once next() has returned   *)
(* Err for a directive failure no later call returns a token; in           *)
(* particular the call that follows the failed one returns no Ok item.     *)
C11_FatalEndsIteration ==
    [][(ret.kind = "Err" /\ last.act \in DirectiveActs) => ret'.kind # "Ok"]_vars

\* the number of actual arguments the tokens from position i on supply up
\* to the parenthesis that closes the list, 0 when nothing closes it
RECURSIVE Actuals(_, _, _, _)
Actuals(toks, i, nesting, n) ==
    IF i > Len(toks) THEN 0
    ELSE CASE toks[i].k = ")" /\ nesting = 0 -> n
           [] toks[i].k = ")" /\ nesting > 0 -> Actuals(toks, i + 1, nesting - 1, n)
           [] toks[i].k = "(" -> Actuals(toks, i + 1, nesting + 1, n)
           [] toks[i].k = "," /\ nesting = 0 -> Actuals(toks, i + 1, nesting, n + 1)
           [] OTHER -> Actuals(toks, i + 1, nesting, n)

\* the actual arguments of the use of M(p,q) in an enumerated use
Supplied == Actuals(root, Len(DefineM2) + 4, 0, 1)

(* C12: a mismatch of the argument count is fatal.  A use of M, declared   *)
(* with the two formals p and q, that supplies one actual argument or more *)
(* than two makes next() return a fatal error, and pushes no token of the  *)
(* body onto the pending macro stack.                                      *)
C12_ArgCountMismatch ==
    [][(root \in UsePrograms /\ last'.act = "MacroUse" /\ Supplied \notin {0, 2}) =>
          /\ ret'.kind = "Err"
          /\ last'.pushed = <<>>
          /\ macro_stack' = macro_stack]_vars

\* the token is an item of the lexer's stream over a source the
\* preprocessor holds: the root source or one opened by an include
FromLexer(t) ==
    /\ \E i \in 1..Len(contents) : contents[i] = t.sp.src
    /\ t.sp.e \in 1..Len(Content(t.sp.src))
    /\ t = TokenAt(t.sp.src, t.sp.e)

Elements(toks) == {toks[i] : i \in 1..Len(toks)}

(* C13: span fidelity.  Every item next() has returned is, kind and span,  *)
(* an item of the lexer's stream over the root source or over a source     *)
(* opened by an include; the tokens a macro use pushes for playback are    *)
(* tokens of the stored body or of the captured actual arguments, with the *)
(* spans the lexer gave them.                                              *)
C13_SpanFidelity ==
    /\ \A i \in 1..Len(out) : FromLexer(out[i])
    /\ ret.kind = "Ok" => FromLexer(ret.tok)
    /\ last.act = "MacroUse" =>
          \A t \in Elements(last.pushed) :
              /\ FromLexer(t)
              /\ \/ t \in Elements(last.mac.body)
                 \/ \E n \in DOMAIN last.params : t \in Elements(last.params[n])

C13_Witness ==
    /\ root = TestMacroArgs
    /\ ret.kind = "Ok" /\ ret.tok.k = "Digits" /\ Extract(ret.tok.sp) = "12"
    /\ last.act = "Emit"
    /\ \E i \in 1..Len(out) : out[i].k = "{"

\* the directories an include directive in source src is resolved against,
\* in the order of the search
Candidates(src) == <<Parent(src)>> \o include_paths

\* the candidates under which a file of that name exists
Hits(src, file) ==
    {i \in 1..Len(Candidates(src)) :
        \E f \in Files : f.dir = Candidates(src)[i] /\ f.name = file}

\* the file the first of these candidates holds
FirstHit(src, file) ==
    LET i == CHOOSE h \in Hits(src, file) : \A j \in Hits(src, file) : h <= j
    IN (CHOOSE f \in Files : f.dir = Candidates(src)[i] /\ f.name = file).path

(* C14: the order of include resolution.  An active include that succeeds  *)
(* has opened the file of the accumulated name under the first candidate   *)
(* that holds one, the candidates being the directory of the source that   *)
(* contains the directive's tokens and then the include paths in their     *)
(* configured order; that file alone is added to the contents and pushed   *)
(* onto the stream stack.  It fails to open only if no candidate holds the *)
(* file.                                                                   *)
C14_IncludeResolution ==
    [][(last'.act = "Include" /\ ~last'.inactive) =>
          LET src == last'.span.src
              file == last'.file
          IN /\ ret'.kind = "Cont" =>
                   /\ Hits(src, file) # {}
                   /\ contents' = Append(contents, FirstHit(src, file))
                   /\ Top(stack').source = FirstHit(src, file)
                   /\ Top(stack').pos \in {0, 1}
                   /\ Top(stack').pos = 1 => token' = TokenAt(FirstHit(src, file), 1)
             /\ (ret'.kind = "Err" /\ ret'.msg = "Cannot open included file") =>
                   Hits(src, file) = {}]_vars

\* an include written in lib, played back from a macro body while the root
\* source is read, has opened the defs beside lib
C14_Witness ==
    /\ last.act = "Include" /\ last.span.src = "inc/lib" /\ last.file = <<"defs">>
    /\ ret.kind = "Cont"
    /\ contents = <<RootPath, "inc/lib", "inc/defs", "inc/defs">>
    /\ Top(stack) = [source |-> "inc/defs", pos |-> 1]

\* the tokens next() is about to read, in order: the token at hand, the
\* pending macro tokens, then what is left of each stream from the top down
RECURSIVE Unread(_)
Unread(st) ==
    IF st = <<>> THEN <<>>
    ELSE [i \in 1..(Len(Content(Top(st).source)) - Top(st).pos) |->
             TokenAt(Top(st).source, Top(st).pos + i)] \o Unread(Front(st))

Input ==
    (IF token.k = "None" THEN <<>> ELSE <<token>>)
        \o Reverse(macro_stack) \o Unread(stack)

\* the place in the input of the token that should open the file name of
\* an include directive at the head of the input
Opener == IF Len(Input) >= 3 /\ Input[3].k = "Whitespace" THEN 4 ELSE 3

BadOpener == Opener > Len(Input) \/ Input[Opener].k \notin {"\"", "<"}

Closing == IF Input[Opener].k = "\"" THEN "\"" ELSE ">"

\* the places where the file name may close: at the closing symbol, with no
\* newline before it
Closes ==
    {j \in (Opener + 1)..Len(Input) :
        /\ Input[j].k = Closing
        /\ \A m \in (Opener + 1)..(j - 1) : Input[m].k \notin {"Newline", Closing}}

\* the file name between the opener and the closing symbol
Named ==
    LET j == CHOOSE c \in Closes : TRUE
    IN [m \in 1..(j - Opener - 1) |-> Extract(Input[Opener + m].sp)]

\* the include directive at the head of the input must fail
MustFail ==
    \/ BadOpener
    \/ Closes = {}
    \/ Hits(Input[1].sp.src, Named) = {}

Sources(st) == [i \in 1..Len(st) |-> st[i].source]

IsPrefix(a, b) == Len(a) <= Len(b) /\ a = SubSeq(b, 1, Len(a))

(* C15: include failure.  An active include whose next token after the     *)
(* optional whitespace is neither a double quote nor <, or whose file name *)
(* meets a newline or the end of the input before the closing symbol, or   *)
(* whose file opens under no candidate, makes next() return a fatal error; *)
(* the contents are then as before the directive and no stream has been    *)
(* pushed: the stream stack holds the streams it held, less the exhausted  *)
(* ones that reading the directive popped.                                 *)
C15_IncludeFailure ==
    [][(last'.act = "Include" /\ ~last'.inactive) =>
          /\ MustFail <=> ret'.kind = "Err"
          /\ ret'.kind = "Err" =>
                /\ contents' = contents
                /\ IsPrefix(Sources(stack'), Sources(stack))]_vars

\* a file name cut by the end of an included file and then by a newline of
\* the including one: the error is returned with the included stream popped
C15_Witness ==
    /\ last.act = "Include" /\ last.span.src = "r/cut"
    /\ ret.kind = "Err"
    /\ ret.msg = "Expected end of included file's name before line break"
    /\ contents = <<RootPath, "r/cut">>
    /\ Sources(stack) = <<RootPath>>

(* C15 as stated: the stream stack has the same entries after the failed   *)
(* directive as before it.                                                 *)
C15_SameStack ==
    [][(last'.act = "Include" /\ ~last'.inactive /\ ret'.kind = "Err") =>
          /\ contents' = contents
          /\ Sources(stack') = Sources(stack)]_vars

----------------------------------------------------------------------------
(* Properties of the instantiation details.                                *)

\* the computations run so far for one key of one query
Runs(query, key) ==
    {i \in 1..Len(cx.runs) : cx.runs[i].query = query /\ cx.runs[i].key = key}

\* the diagnostics of one severity emitted so far
Emitted(c, severity) == SelectSeq(c.diags, LAMBDA d : d.severity = severity)

\* a cache keeps what it holds
Kept(cache, cache2) ==
    \A key \in DOMAIN cache : key \in DOMAIN cache2 /\ cache2[key] = cache[key]

(* C16: query memoisation and idempotence.  inst_target_details and        *)
(* inst_details are computed at most once for a key (NodeId, ParamEnv); a  *)
(* call for a key asked before returns the result of the first call, a     *)
(* failure as well, and emits no diagnostic.  Two instances that share one *)
(* InstTarget, asked under the same env, cause one computation of the      *)
(* target's details and have the same target, hence the same inner_env.    *)
C16_Memoisation ==
    /\ [](/\ \A i \in 1..Len(cx.runs) : Cardinality(Runs(cx.runs[i].query, cx.runs[i].key)) = 1
          /\ \A env \in 1..Len(cx.envs) :
                (/\ NodeEnvId("a1", env) \in DOMAIN cx.inst_details
                 /\ NodeEnvId("a2", env) \in DOMAIN cx.inst_details) =>
                   LET d1 == cx.inst_details[NodeEnvId("a1", env)]
                       d2 == cx.inst_details[NodeEnvId("a2", env)]
                   IN /\ Cardinality(Runs("inst_target_details", NodeEnvId("tAM", env))) = 1
                      /\ d1.ok = d2.ok
                      /\ d1.ok => /\ d1.val.target = d2.val.target
                                  /\ d1.val.target.inner_env = d2.val.target.inner_env
                                  /\ d1.val.target =
                                        cx.inst_target_details[NodeEnvId("tAM", env)].val)
    /\ [][/\ Kept(cx.inst_details, cx'.inst_details)
          /\ Kept(cx.inst_target_details, cx'.inst_target_details)
          /\ (answer'.query \in {"inst_details", "inst_target_details", "visit_inst"}
                /\ answer'.hit) =>
                /\ cx'.runs = cx.runs
                /\ Emitted(cx', "error") = Emitted(cx, "error")
                /\ answer'.res =
                      IF answer'.query = "inst_target_details"
                      THEN cx.inst_target_details[NodeEnvId(answer'.id, answer'.env)]
                      ELSE cx.inst_details[NodeEnvId(answer'.id, answer'.env)]]_vars

\* a2 has been asked for after a1, under the same env, and both succeeded
C16_Witness ==
    /\ answer.query = "inst_details" /\ answer.id = "a2" /\ answer.env = 1
    /\ ~answer.hit /\ answer.res.ok
    /\ NodeEnvId("a1", 1) \in DOMAIN cx.inst_details
    /\ cx.inst_details[NodeEnvId("a1", 1)].ok
    /\ Len(cx.runs) = 4

\* the diagnostics that report the module named by an InstTarget unknown
Unknown(id) ==
    SelectSeq(cx.diags,
              LAMBDA d : d.msg = "unknown module or interface"
                            /\ d.span = hir_of(id).name.span)

(* C17: a single diagnostic per root cause.  When an InstTarget names a    *)
(* module that find_module does not know, the unknown module is diagnosed  *)
(* exactly once over any sequence of queries: once its details have been   *)
(* asked for, directly or by a query that depends on them, there is one    *)
(* "unknown module or interface" error at its name span, and no more.      *)
C17_SingleDiagnostic ==
    \A id \in InstTargetIds :
        find_module(hir_of(id).name.value) = "" =>
            Len(Unknown(id)) =
                IF \E key \in DOMAIN cx.inst_target_details : key.id = id THEN 1 ELSE 0

\* the bindings an InstTarget gives the parameters of its module
BindingsOf(id) ==
    Bindings(hir_of(find_module(hir_of(id).name.value)).params, hir_of(id).pos_params)

(* C18: instance isolation and the canonical environment.  Any two         *)
(* instantiation targets of the same module whose details have been        *)
(* computed have the same inner_env handle if their parameter bindings are *)
(* structurally identical, distinct InstTarget nodes included, and         *)
(* distinct handles if the bindings differ; the handle stands for these    *)
(* bindings.                                                               *)
C18_InstanceIsolation ==
    \A k1, k2 \in DOMAIN cx.inst_target_details :
        LET t1 == cx.inst_target_details[k1]
            t2 == cx.inst_target_details[k2]
        IN (t1.ok /\ t2.ok /\ t1.val.module = t2.val.module) =>
              /\ (t1.val.inner_env = t2.val.inner_env) <=>
                    (BindingsOf(k1.id) = BindingsOf(k2.id))
              /\ cx.envs[t1.val.inner_env] = BindingsOf(k1.id)
              /\ t1.val.params = BindingsOf(k1.id)
              /\ t1.val.outer_env = k1.env

\* M #() and M #(0), two InstTarget nodes, have one inner environment
C18_Witness ==
    /\ design.pa = <<>> /\ design.pb = <<0>>
    /\ NodeEnvId("tAM", 1) \in DOMAIN cx.inst_target_details
    /\ NodeEnvId("tBM", 1) \in DOMAIN cx.inst_target_details
    /\ cx.inst_target_details[NodeEnvId("tAM", 1)].ok
    /\ cx.inst_target_details[NodeEnvId("tBM", 1)].ok
    /\ cx.inst_target_details[NodeEnvId("tAM", 1)].val.inner_env = 2
    /\ cx.inst_target_details[NodeEnvId("tBM", 1)].val.inner_env = 2

\* a walk of Top, started on a fresh context, has come to its end
WalkedTop ==
    /\ calls = 1 /\ visitors = <<>>
    /\ answer.query = "return" /\ answer.id = "Top"

\* the visits of the body of a module under an env
Visits(module, env) ==
    {i \in 1..Len(visited) : visited[i] = [module |-> module, env |-> env]}

\* the instances of M, all reached from Top under the default env, whose
\* details are there and hold that inner env
InstancesOfM(env) ==
    {i \in {"a1", "a2", "b1"} :
        /\ NodeEnvId(i, 1) \in DOMAIN cx.inst_details
        /\ cx.inst_details[NodeEnvId(i, 1)].ok
        /\ cx.inst_details[NodeEnvId(i, 1)].val.target.inner_env = env}

(* C19: the verbosity visitor.  A visitor whose env is e, visiting an      *)
(* Inst, asks inst_details(inst, e).  On success it emits one note, at the *)
(* instance's name, and a visitor with the instance's inner_env enters the *)
(* target module; on failure it emits no note and does not descend.  The   *)
(* visitor's own env is e afterwards.  Hence after a walk of Top the body  *)
(* of M has been visited once for each of its instances, under that        *)
(* instance's inner_env: under two distinct envs if the bindings of the    *)
(* instances in A and in B differ.                                         *)
C19_VerbosityVisitor ==
    /\ [](WalkedTop =>
            /\ \A env \in 1..Len(cx.envs) :
                  Cardinality(Visits("M", env)) = Cardinality(InstancesOfM(env))
            /\ (InstancesOfM(2) # {} /\ BindingsOf("tAM") # BindingsOf("tBM")
                  /\ Len(design.pb) <= 1) =>
                  /\ Cardinality(Visits("M", 2)) = 2
                  /\ Cardinality(Visits("M", 3)) = 1)
    /\ [][answer'.query = "visit_inst" =>
            LET n == Len(visitors)
                e == Top(visitors).env
                key == NodeEnvId(answer'.id, e)
                note == [severity |-> "note", msg |-> "instantiation details",
                         span |-> hir_of(answer'.id).name.span]
            IN /\ answer'.id = hir_of(Top(visitors).module).insts[Top(visitors).at]
               /\ answer'.env = e
               /\ key \in DOMAIN cx'.inst_details
               /\ answer'.res = cx'.inst_details[key]
               /\ visitors'[n] = [Top(visitors) EXCEPT !.at = @ + 1]
               /\ SubSeq(visitors', 1, n - 1) = Front(visitors)
               /\ IF answer'.res.ok
                  THEN /\ cx'.diags = Append(cx.diags, note)
                       /\ Len(visitors') = n + 1
                       /\ visitors'[n + 1] =
                             [env |-> answer'.res.val.target.inner_env,
                              module |-> answer'.res.val.target.module, at |-> 1]
                       /\ visited' =
                             Append(visited,
                                    [module |-> answer'.res.val.target.module,
                                     env |-> answer'.res.val.target.inner_env])
                  ELSE /\ Emitted(cx', "note") = Emitted(cx, "note")
                       /\ Len(visitors') = n
                       /\ visited' = visited]_vars

\* M #(1) in A and M #() in B: the walk of Top has visited the body of M
\* under the env of each
C19_Witness ==
    /\ WalkedTop
    /\ design = [pa |-> <<1>>, pb |-> <<>>, nb |-> "L"]
    /\ Len(visited) = 9
    /\ visited[3] = [module |-> "M", env |-> 2]
    /\ visited[8] = [module |-> "M", env |-> 3]
    /\ Len(Emitted(cx, "note")) = 8

(* C20: every directive failure yields one Err item that carries the       *)
(* offending span.  The iteration of next() in which a directive fails     *)
(* returns Err, and the diagnostic has a span, which lies in a source the  *)
(* preprocessor holds; this for every kind of failure.                     *)
C20_ErrCarriesSpan ==
    [][(last'.act \in DirectiveActs \cup {"StrayBacktick"} /\ ret'.kind = "Err") =>
          /\ ret'.msg # ""
          /\ ret'.span # NoSpan
          /\ \E i \in 1..Len(contents') : contents'[i] = ret'.span.src]_vars

(* the stream stack of before, less the n topmost streams                  *)
Popped(n) == SubSeq(Sources(stack), 1, Len(stack) - n)

(* C21: contents pinning.  The contents start with the root source and     *)
(* hold the source of every stream on the stream stack.  A step that       *)
(* pushes a stream appends its source to the contents, and no other step   *)
(* changes them: an entry is never removed, so a source stays pinned after *)
(* its stream has been exhausted and popped.                               *)
C21_ContentsPinning ==
    /\ [](/\ contents # <<>> /\ contents[1] = RootPath
          /\ \A i \in 1..Len(stack) : stack[i].source \in Elements(contents))
    /\ [][/\ IsPrefix(contents, contents')
          /\ IF last'.act = "Include" /\ ~last'.inactive /\ ret'.kind = "Cont"
             THEN \E n \in 0..Len(stack) :
                     /\ Sources(stack') = Append(Popped(n), Top(stack').source)
                     /\ contents' = Append(contents, Top(stack').source)
             ELSE /\ \E n \in 0..Len(stack) : Sources(stack') = Popped(n)
                  /\ contents' = contents]_vars

\* defs has been included, read to its end and popped, and the token after
\* the directive has been returned: the contents still hold defs
C21_Witness ==
    /\ contents = <<RootPath, "r/defs">>
    /\ Sources(stack) = <<RootPath>>
    /\ ret.kind = "Ok" /\ ret.tok.sp.src = RootPath
    /\ \E i \in 1..Len(out) : out[i].sp.src = "r/defs"

\* what is left of the input once its first n tokens have been read
Rest(n) == SubSeq(Input, n + 1, Len(Input))

(* C22: read priority and playback order.  The tokens are read in the      *)
(* order: the token at hand, the pending macro tokens from the top of      *)
(* their stack down, then each stream from the topmost down, an exhausted  *)
(* stream giving way to the one below it.  An Ok item is the first token   *)
(* of that order and leaves the rest of it; any step that pushes no stream *)
(* leaves a rest of it, with the tokens a macro use has pushed, in body    *)
(* order, put before that rest: so a body is returned in body order, and   *)
(* the tokens of a macro used inside a body come before what is left of    *)
(* that body.  The source of tests::macro_noargs_parentheses yields        *)
(* "(4+$clog2(2))".                                                        *)
C22_ReadPriority ==
    /\ [][/\ ret'.kind = "Ok" =>
                /\ Input # <<>> /\ ret'.tok = Input[1]
                /\ Input' = Rest(1)
          /\ ~(last'.act = "Include" /\ ret'.kind = "Cont" /\ ~last'.inactive) =>
                \E n \in 0..Len(Input) : Input' = last'.pushed \o Rest(n)]_vars
    /\ []((root = TestMacroNoargsParentheses /\ ret.kind = "None") =>
             Texts(out) = <<"(", "4", "+", "$", "clog2", "(", "2", ")", ")">>)

\* the use of FOO inside the body of BAR has been expanded while the rest
\* of that body was pending, and the whole source has been read
C22_Witness ==
    /\ root = TestMacroNoargsParentheses /\ ret.kind = "None"
    /\ Len(out) = 9
    /\ out[2].sp = [src |-> RootPath, b |-> 5, e |-> 6]
    /\ out[3].sp = [src |-> RootPath, b |-> 15, e |-> 16]

\* the preprocessor once the backtick and the name after it have been read
AfterDirective == Bump(AfterBacktick)

(* C23: the frame of an inactive region.  While the top of the conditional *)
(* stack is Disabled or Done, an include, a define or a backtick-name that *)
(* is no built-in directive, whether or not it names a defined macro,      *)
(* returns no error and leaves the macro table, the contents and the       *)
(* conditional stack as they are; it pushes no stream and no pending       *)
(* token: the streams and the pending stack are those left by reading the  *)
(* backtick and the name, and nothing more has been read.                  *)
C23_InactiveFrame ==
    [][(Inactive(defcond_stack) /\ last'.act \in {"Include", "Define", "MacroUse"}) =>
          /\ ret'.kind = "Cont"
          /\ macro_defs' = macro_defs
          /\ contents' = contents
          /\ defcond_stack' = defcond_stack
          /\ stack' = AfterDirective.stack
          /\ macro_stack' = AfterDirective.macro_stack
          /\ token' = AfterDirective.token
          /\ Input' = Rest(2)
          /\ last'.pushed = <<>>]_vars

\* the use of a defined macro in a Disabled region has been passed over
C23_Witness ==
    /\ last.act = "MacroUse" /\ last.name \in DOMAIN macro_defs
    /\ defcond_stack # <<>> /\ Top(defcond_stack) = "Disabled"
    /\ ret.kind = "Cont" /\ macro_stack = <<>>

\* the index in the root source of the first body token of the macro that
\* has just been defined: after the name, the list of formal arguments if
\* an open parenthesis follows the name, and one optional whitespace token
BodyStart ==
    LET n == last.mac.span.e
        p == IF RootHas(n + 1, "(")
             THEN CHOOSE j \in (n + 2)..Len(root) :
                     /\ root[j].k = ")"
                     /\ \A m \in (n + 2)..(j - 1) : root[m].k # ")"
             ELSE n
    IN IF RootHas(p + 1, "Whitespace") THEN p + 2 ELSE p + 1

\* the tokens of the root source from index i up to the first newline that
\* no backslash precedes, each pair of a backslash and a newline left out
RECURSIVE BodyFrom(_)
BodyFrom(i) ==
    CASE i > Len(root) -> <<>>
      [] i <= Len(root) /\ root[i].k = "Newline" -> <<>>
      [] RootHas(i, "\\") /\ RootHas(i + 1, "Newline") -> BodyFrom(i + 2)
      [] OTHER -> <<Lexed(i)>> \o BodyFrom(i + 1)

\* the index of that newline, or of the end of the root source
RECURSIVE BodyEnd(_)
BodyEnd(i) ==
    CASE i > Len(root) -> i
      [] i <= Len(root) /\ root[i].k = "Newline" -> i
      [] RootHas(i, "\\") /\ RootHas(i + 1, "Newline") -> BodyEnd(i + 2)
      [] OTHER -> BodyEnd(i + 1)

(* C24: the capture of a define's body.  After the name, the list of       *)
(* formal arguments if there is one, and one optional whitespace token,    *)
(* the body stored is the tokens that follow up to the first newline that  *)
(* no backslash immediately precedes, each pair of a backslash and a       *)
(* newline dropped and every other token stored, whitespace included; the  *)
(* newline that ends the body is consumed and not returned; the table      *)
(* holds the new definition under the name.                                *)
C24_DefineBody ==
    (Defined /\ FromRoot) =>
        /\ last.mac.body = BodyFrom(BodyStart)
        /\ macro_defs[last.arg] = last.mac
        /\ token = IF BodyEnd(BodyStart) < Len(root)
                   THEN Lexed(BodyEnd(BodyStart) + 1) ELSE NoToken

\* the index in an enumerated use of the first token after the parenthesis
\* that opens the list of actual arguments
ListStart == Len(DefineM2) + 4

\* the parentheses opened and not yet closed by the tokens of the list
\* before index i
Depth(i) ==
    Cardinality({j \in ListStart..(i - 1) : root[j].k = "("})
        - Cardinality({j \in ListStart..(i - 1) : root[j].k = ")"})

\* the closing parentheses at depth 0, and the first of them
Closers == {j \in ListStart..Len(root) : root[j].k = ")" /\ Depth(j) = 0}
ListEnd == CHOOSE j \in Closers : \A m \in Closers : j <= m

\* the commas at depth 0 before index i
Separators(i) == {j \in ListStart..(i - 1) : root[j].k = "," /\ Depth(j) = 0}

\* the k-th smallest element of a set of numbers
Nth(S, k) == CHOOSE x \in S : Cardinality({y \in S : y < x}) = k - 1

\* the index of the last token that the stream over the root source has
\* yielded
ReadTo == IF stack = <<>> THEN Len(root) ELSE stack[1].pos

\* the use of M in an enumerated use has just been processed
UsedM == root \in UsePrograms /\ last.act = "MacroUse"

(* C25: argument splitting with nesting.  While the actual arguments of a  *)
(* use are collected, the depth (the parentheses opened and not yet closed *)
(* since the list began) is never negative over the tokens read.  The list *)
(* ends at the first closing parenthesis at depth 0 and nowhere else: the  *)
(* use succeeds only if there is one, and has then read up to it.  The     *)
(* arguments are split at the commas at depth 0 alone: there is one more   *)
(* argument than such commas, the tokens of each lie between its two       *)
(* delimiters, and a comma at a greater depth is a token of an argument.   *)
C25_ArgNesting ==
    UsedM =>
        /\ \A i \in ListStart..ReadTo : Depth(i) >= 0
        /\ ret.msg = "Expected closing parenthesis after macro parameters" =>
              Closers = {}
        /\ ret.kind = "Cont" =>
              /\ Closers # {} /\ ReadTo = ListEnd
              /\ LET delims == Separators(ListEnd) \cup {ListEnd}
                     n == Cardinality(delims)
                     from(k) == IF k = 1 THEN ListStart - 1 ELSE Nth(delims, k - 1)
                 IN /\ n <= Len(last.mac.args)
                    /\ DOMAIN last.params = {last.mac.args[k].name : k \in 1..n}
                    /\ \A k \in 1..n :
                          \A t \in Elements(last.params[last.mac.args[k].name]) :
                              /\ t.sp.src = RootPath
                              /\ from(k) < t.sp.e /\ t.sp.e < Nth(delims, k)
                    /\ \A j \in ListStart..ListEnd :
                          (root[j].k = "," /\ Depth(j) > 0) =>
                              \E k \in 1..n :
                                  Lexed(j) \in Elements(last.params[last.mac.args[k].name])

\* the use M((,)): the comma in parentheses is a token of the one argument
\* and the first closing parenthesis does not end the list
C25_Witness ==
    /\ UsedM /\ ret.kind = "Cont"
    /\ SubSeq(root, ListStart, Len(root)) = <<Sy("("), Sy(","), Sy(")"), Sy(")")>>
    /\ DOMAIN last.params = {"p"}
    /\ last.params["p"] = <<Lexed(ListStart + 1)>>

\* the token at hand is a backtick and the text after it names a directive
\* that has no implementation
AtUndef ==
    /\ Alive /\ IsDirective
    /\ dir_name \in {"undef", "undefineall"}

(* C26: undef and undefineall are names of built-in directives without an  *)
(* implementation.  Processing either of them is a panic: the call returns *)
(* no item, neither an error nor a token, no macro is looked up and the    *)
(* preprocessor does nothing after it.  This in active and in inactive     *)
(* regions alike.  No step removes an entry from the macro table.          *)
C26_UndefPanics ==
    [][/\ AtUndef =>
             /\ ret'.kind = "Panic"
             /\ last'.act = "NotImplemented" /\ last'.mac = NoMacro
             /\ last'.inactive = Inactive(defcond_stack)
             /\ macro_defs' = macro_defs
       /\ ret.kind = "Panic" => UNCHANGED vars
       /\ \A n \in DOMAIN macro_defs : n \in DOMAIN macro_defs']_vars

\* undefineall in a Disabled region, with A defined: a panic, and A stays
C26_Witness ==
    /\ ret.kind = "Panic" /\ last.name = "undefineall" /\ last.inactive
    /\ Top(defcond_stack) = "Disabled"
    /\ DOMAIN macro_defs = {"A"}

\* the token is a Text token that stands right after a backtick in its
\* source: the name of a directive
NamesDirective(t) ==
    /\ t.k = "Text" /\ t.sp.e > 1
    /\ Content(t.sp.src)[t.sp.e - 1].k = "BACKTICK"

(* C27: the stray backtick.  A backtick followed by another backtick, by   *)
(* any token that is no Text token or by the end of the input makes next() *)
(* return a fatal error, whatever the conditional stack holds: in a        *)
(* Disabled or Done region too.  A backtick followed by a Text token makes *)
(* next() return no token for either of them: no item ever returned is a   *)
(* backtick or the name after one.                                         *)
C27_StrayBacktick ==
    /\ [][(Alive /\ AtLoop.token.k = "BACKTICK" /\ AfterBacktick.token.k # "Text") =>
             /\ ret'.kind = "Err"
             /\ ret'.msg = IF AfterBacktick.token.k = "BACKTICK"
                           THEN "Preprocessor concatenation used outside of define"
                           ELSE "Expected compiler directive after backtick"
             /\ last'.inactive = Inactive(defcond_stack)]_vars
    /\ [](\A i \in 1..Len(out) : out[i].k # "BACKTICK" /\ ~NamesDirective(out[i]))

\* the request param_env is asked with for an InstTarget under an env
RequestOf(id, env) ==
    ModuleInst(find_module(hir_of(id).name.value), NodeEnvId(id, env), hir_of(id))

(* C28: inst_details binds the ports under the inner environment of the    *)
(* target.  The details computed for an Inst under an env e hold the       *)
(* details of its InstTarget under e, and the PortMapping they hold was    *)
(* asked for with the module the target's name resolves to, the id of the  *)
(* Inst and the target's inner_env, not with e.  The details of an         *)
(* InstTarget under e have outer_env e, and for inner_env the handle that  *)
(* param_env returned for the instantiation.                               *)
C28_PortsUnderInnerEnv ==
    /\ \A key \in DOMAIN cx.inst_details :
          LET d == cx.inst_details[key]
              tkey == NodeEnvId(hir_of(key.id).target, key.env)
          IN d.ok =>
                /\ tkey \in DOMAIN cx.inst_target_details
                /\ d.val.target = cx.inst_target_details[tkey].val
                /\ d.val.inst = key.id
                /\ d.val.ports =
                      [module |-> find_module(hir_of(tkey.id).name.value),
                       inst |-> key.id,
                       env |-> d.val.target.inner_env]
    /\ \A key \in DOMAIN cx.inst_target_details :
          LET t == cx.inst_target_details[key] IN
          t.ok =>
             /\ t.val.inst_target = key.id
             /\ t.val.module = find_module(hir_of(key.id).name.value)
             /\ t.val.outer_env = key.env
             /\ RequestOf(key.id, key.env) \in DOMAIN cx.param_env
             /\ t.val.inner_env = cx.param_env[RequestOf(key.id, key.env)].val
             /\ t.val.params = cx.envs[t.val.inner_env]

\* M #(1) a1() asked for under the default env: the ports are bound under
\* the env of P = 1, which is not the default one
C28_Witness ==
    /\ design.pa = <<1>>
    /\ NodeEnvId("a1", 1) \in DOMAIN cx.inst_details
    /\ cx.inst_details[NodeEnvId("a1", 1)].ok
    /\ cx.inst_details[NodeEnvId("a1", 1)].val.ports =
          [module |-> "M", inst |-> "a1", env |-> 2]
    /\ cx.inst_details[NodeEnvId("a1", 1)].val.target.outer_env = 1

\* the latest iteration processed an elsif or an else that opened the next
\* arm of the innermost chain
NextArm ==
    /\ ret.kind = "Cont"
    /\ \/ last.act = "Else"
       \/ last.act = "Conditional" /\ last.name = "elsif"

(* C29: at most one arm of a conditional chain is Enabled.  The entry of a *)
(* chain lies at one place of the conditional stack from its ifdef or      *)
(* ifndef to its endif.  An elsif or an else, in any number and order,     *)
(* makes the entry of an arm that follows an Enabled or a Done one Done,   *)
(* so an arm is Enabled only if every arm before it was Disabled; and no   *)
(* step at all takes an entry from Done to Enabled or Disabled, or from    *)
(* Enabled to Disabled.                                                    *)
C29_OneArmPerChain ==
    [][/\ \A i \in 1..Len(defcond_stack) :
             i <= Len(defcond_stack') =>
                /\ defcond_stack[i] = "Done" => defcond_stack'[i] = "Done"
                /\ defcond_stack[i] = "Enabled" => defcond_stack'[i] # "Disabled"
       /\ NextArm' =>
             /\ defcond_stack # <<>>
             /\ Len(defcond_stack') = Len(defcond_stack)
             /\ Top(defcond_stack) \in {"Enabled", "Done"} =>
                   Top(defcond_stack') = "Done"
             /\ Top(defcond_stack') = "Enabled" => Top(defcond_stack) = "Disabled"]_vars

\* ifdef A with A not defined, else, else: the second arm was Enabled and
\* the third one is Done
C29_Witness ==
    /\ root = <<Bt, KwIfdef, Ws, A, Nl, Bt, KwElse, Nl, Bt, KwElse, Nl>>
    /\ NextArm /\ last.act = "Else"
    /\ defcond_stack = <<"Done">>
    /\ stack # <<>> /\ stack[1].pos = Len(root)

(* C30: substitution is a single pass.  The tokens captured for an actual  *)
(* argument are put in place of the formal as they are and are not looked  *)
(* at again: the tokens pushed are the body with each Text token that      *)
(* names a formal replaced once, so a captured token that is itself the    *)
(* name of a formal is pushed as it was captured.  For define m(x,y) x y   *)
(* the use m(y,1) yields y, the whitespace of the body, and 1.             *)
C30_SinglePass ==
    /\ (UsedMacro /\ last.mac.args # <<>>) =>
          /\ last.pushed = Expanded(last.mac.body, last.params)
          /\ \A f \in DOMAIN last.params :
                \A t \in Elements(last.params[f]) :
                    (\E j \in 1..Len(last.mac.body) :
                        /\ last.mac.body[j].k = "Text"
                        /\ Extract(last.mac.body[j].sp) = f) =>
                       t \in Elements(last.pushed)
    /\ (root = SinglePass /\ ret.kind = "None") => Texts(out) = <<"y", " ", "1">>

\* the source of the example has been read to its end
C30_Witness ==
    /\ root = SinglePass /\ ret.kind = "None"
    /\ Len(out) = 3
    /\ out[1] = Lexed(18) /\ out[2] = Lexed(12) /\ out[3] = Lexed(20)

\* the tokens of the root source from index a to index b
Between(a, b) == [i \in 1..(b - a + 1) |-> Lexed(a + i - 1)]

(* C31: the capture of an argument loses nothing.  The tokens captured for *)
(* each actual argument of a use are the tokens of the input between the   *)
(* two delimiters of the argument (the opening parenthesis of the list,    *)
(* the commas at depth 0 and the closing parenthesis at depth 0), the      *)
(* parentheses nested inside the argument included.                        *)
C31_LosslessCapture ==
    (UsedM /\ ret.kind = "Cont") =>
        LET delims == Separators(ListEnd) \cup {ListEnd}
            from(k) == IF k = 1 THEN ListStart - 1 ELSE Nth(delims, k - 1)
        IN \A k \in 1..Cardinality(delims) :
              last.params[last.mac.args[k].name] =
                  Between(from(k) + 1, Nth(delims, k) - 1)

(* C32: every call of next() returns.  A call that is running comes to its *)
(* end, by an item, by the end of the sequence, by an error or by a panic, *)
(* unless the model stops it at one of its bounds; this for every root     *)
(* source, a macro whose body uses itself and a source that includes       *)
(* itself among them.                                                      *)
C32_Termination == Running ~> (~Running \/ ~ENABLED Next)

====
